---------------------------- MODULE Spec2Model ----------------------------
(***************************************************************************)
(* The simplehash event hashing pipeline of go-datatrails-simplehash:      *)
(* options (options.go), the Hasher accumulator (hasher.go), the v2 and v3 *)
(* schema wrappers (schemav2.go, schemav3.go) and the canonical encoding   *)
(* they feed to the digest.                                                *)
(*                                                                         *)
(* Byte strings are sequences of 0..255.  The SHA-256 state of a Hasher is *)
(* modelled by the sequence of bytes written since the last Reset, and a   *)
(* digest by the input it is the digest of (a collision-free hash), so two *)
(* digests are equal exactly when their inputs are.                        *)
(***************************************************************************)
EXTENDS Integers, Sequences, FiniteSets, TLC

(***************************************************************************)
(* Bounds of the model.                                                    *)
(***************************************************************************)
\* public markers at the head of an identity before the translators are no longer called on it
MaxMarkers == 2

\* events folded into one running digest before the caller must Reset
MaxEvents == 2

(***************************************************************************)
(* Byte-string helpers.                                                    *)
(***************************************************************************)
RECURSIVE Decimal(_)
\* fmt "%d" of a natural number
Decimal(n) ==
    IF n < 10 THEN <<48 + n>> ELSE Decimal(n \div 10) \o <<48 + (n % 10)>>

RECURSIVE BytesLessFrom(_, _, _)
\* a[i..] < b[i..] when a and b agree before i
BytesLessFrom(a, b, i) ==
    IF i > Len(b) THEN FALSE
    ELSE IF i > Len(a) THEN TRUE
    ELSE IF a[i] # b[i] THEN a[i] < b[i]
    ELSE BytesLessFrom(a, b, i + 1)

\* Go's string comparison a < b: byte-wise lexicographic
BytesLess(a, b) == BytesLessFrom(a, b, 1)

\* strings.HasPrefix
HasPrefix(s, p) == Len(s) >= Len(p) /\ SubSeq(s, 1, Len(p)) = p

\* strings.TrimPrefix
TrimPrefix(s, p) == IF HasPrefix(s, p) THEN SubSeq(s, Len(p) + 1, Len(s)) ELSE s

(***************************************************************************)
(* The json struct tags of V2Event and V3Event, the keys of a principal,   *)
(* and the text constants of the API, as bytes.                            *)
(***************************************************************************)
Tag ==
    [ identity            |-> <<105, 100, 101, 110, 116, 105, 116, 121>>,
      asset_identity      |-> <<97, 115, 115, 101, 116, 95, 105, 100, 101, 110, 116, 105, 116, 121>>,
      event_attributes    |-> <<101, 118, 101, 110, 116, 95, 97, 116, 116, 114, 105, 98, 117, 116, 101, 115>>,
      asset_attributes    |-> <<97, 115, 115, 101, 116, 95, 97, 116, 116, 114, 105, 98, 117, 116, 101, 115>>,
      operation           |-> <<111, 112, 101, 114, 97, 116, 105, 111, 110>>,
      behaviour           |-> <<98, 101, 104, 97, 118, 105, 111, 117, 114>>,
      timestamp_declared  |-> <<116, 105, 109, 101, 115, 116, 97, 109, 112, 95, 100, 101, 99, 108, 97, 114, 101, 100>>,
      timestamp_accepted  |-> <<116, 105, 109, 101, 115, 116, 97, 109, 112, 95, 97, 99, 99, 101, 112, 116, 101, 100>>,
      timestamp_committed |-> <<116, 105, 109, 101, 115, 116, 97, 109, 112, 95, 99, 111, 109, 109, 105, 116, 116, 101, 100>>,
      principal_accepted  |-> <<112, 114, 105, 110, 99, 105, 112, 97, 108, 95, 97, 99, 99, 101, 112, 116, 101, 100>>,
      principal_declared  |-> <<112, 114, 105, 110, 99, 105, 112, 97, 108, 95, 100, 101, 99, 108, 97, 114, 101, 100>>,
      confirmation_status |-> <<99, 111, 110, 102, 105, 114, 109, 97, 116, 105, 111, 110, 95, 115, 116, 97, 116, 117, 115>>,
      from                |-> <<102, 114, 111, 109>>,
      tenant_identity     |-> <<116, 101, 110, 97, 110, 116, 95, 105, 100, 101, 110, 116, 105, 116, 121>> ]

\* "public": the marker v2assets.PublicIdentityFromPermissioned prepends
\* ("assets/..." becomes "publicassets/...")
PublicMarker == <<112, 117, 98, 108, 105, 99>>

\* v2assets.ConfirmationStatus_name: "PENDING", "CONFIRMED"
StatusName ==
    [ PENDING   |-> <<80, 69, 78, 68, 73, 78, 71>>,
      CONFIRMED |-> <<67, 79, 78, 70, 73, 82, 77, 69, 68>> ]

(***************************************************************************)
(* Values: what encoding/json decodes into `any` and what the attribute    *)
(* and principal maps of an event hold.  kind "str" carries bytes s, kind  *)
(* "num" a float64 whose decimal text is s, kind "map" a Go map m given as *)
(* the sequence of its <<key, value>> entries in the order they were       *)
(* inserted (the keys are distinct), kind "nil" is a nil map or JSON null, *)
(* and kind "chan" is a Go value encoding/json cannot marshal (a channel,  *)
(* a func), which only a caller-built V3Event can hold.                    *)
(***************************************************************************)
Str(b) == [k |-> "str", s |-> b, m |-> <<>>]
Num(b) == [k |-> "num", s |-> b, m |-> <<>>]
Map(entries) == [k |-> "map", s |-> <<>>, m |-> entries]
NilVal == [k |-> "nil", s |-> <<>>, m |-> <<>>]
\* bytes that are not a JSON text
Malformed == [k |-> "bad", s |-> <<>>, m |-> <<>>]
ChanVal == [k |-> "chan", s |-> <<>>, m |-> <<>>]

RECURSIVE InsertEntry(_, _)
\* kv put in its place among entries that are in ascending key order
InsertEntry(kv, sorted) ==
    IF sorted = <<>> THEN <<kv>>
    ELSE IF BytesLess(kv[1], sorted[1][1]) THEN <<kv>> \o sorted
    ELSE <<sorted[1]>> \o InsertEntry(kv, Tail(sorted))

\* a faulty SortEntries: the entries in the reverse of the order the map was
\* built in
SortEntries_Reversed(entries) == [i \in 1..Len(entries) |-> entries[Len(entries) + 1 - i]]

\* a faulty SortEntries: the entries in the order the map was built in
SortEntries_AsBuilt(entries) == entries

\* the entries of a Go map in ascending key order, as sort.Sort(keys) in
\* bencode's (and encoding/json's) map encoder visits them
RECURSIVE SortEntries(_)
SortEntries(entries) ==
    IF entries = <<>> THEN <<>>
    ELSE InsertEntry(entries[1], SortEntries(Tail(entries)))

(***************************************************************************)
(* bencode.EncodeBytes on a decoded JSON value.  Strings are written       *)
(* "<len>:<bytes>", maps "d" <key><value>... "e" in ascending key order    *)
(* with nil values skipped; there is no encoding of a float64, so a value  *)
(* holding a JSON number fails.  The result is [ok, b]: b is meaningful    *)
(* only when ok.                                                           *)
(***************************************************************************)
RECURSIVE Bencode(_)
RECURSIVE BencodeEntries(_)
BencodeEntries(entries) ==
    IF entries = <<>> THEN [ok |-> TRUE, b |-> <<>>]
    ELSE LET kv == Head(entries)
             rest == BencodeEntries(Tail(entries))
         IN  IF kv[2].k = "nil" THEN rest
             ELSE LET key == Bencode(Str(kv[1]))
                      val == Bencode(kv[2])
                  IN  IF val.ok /\ rest.ok
                      THEN [ok |-> TRUE, b |-> key.b \o val.b \o rest.b]
                      ELSE [ok |-> FALSE, b |-> <<>>]

Bencode(v) ==
    CASE v.k = "str" -> [ok |-> TRUE, b |-> Decimal(Len(v.s)) \o <<58>> \o v.s]
      [] v.k = "map" ->
            LET r == BencodeEntries(SortEntries(v.m))
            IN  IF r.ok THEN [ok |-> TRUE, b |-> <<100>> \o r.b \o <<101>>]
                ELSE [ok |-> FALSE, b |-> <<>>]
      [] v.k = "nil" -> [ok |-> TRUE, b |-> <<>>]
      [] OTHER -> [ok |-> FALSE, b |-> <<>>]

(***************************************************************************)
(* encoding/json.                                                          *)
(***************************************************************************)
\* json.Marshal fails on a value it has no encoding for
RECURSIVE Marshalable(_)
Marshalable(v) ==
    CASE v.k = "chan" -> FALSE
      [] v.k = "map" -> \A i \in 1..Len(v.m) : Marshalable(v.m[i][2])
      [] OTHER -> TRUE

\* json.Marshal followed by json.Unmarshal into `any`: a map is written in
\* ascending key order and rebuilt by inserting the keys in that order
RECURSIVE Reparse(_)
Reparse(v) ==
    IF v.k = "map"
    THEN LET sorted == SortEntries(v.m)
         IN  Map([i \in 1..Len(sorted) |-> <<sorted[i][1], Reparse(sorted[i][2])>>])
    ELSE v

\* the value a JSON object holds under a key; NilVal when the key is absent
Lookup(doc, key) ==
    IF \E i \in 1..Len(doc.m) : doc.m[i][1] = key
    THEN doc.m[CHOOSE i \in 1..Len(doc.m) : doc.m[i][1] = key][2]
    ELSE NilVal

\* json.Unmarshal into a struct field of type string: null leaves "", any
\* other kind than a string is an UnmarshalTypeError
StringFieldOK(v) == v.k \in {"str", "nil"}
StringField(v) == IF v.k = "str" THEN v.s ELSE <<>>

\* json.Unmarshal into a struct field of type map[string]any
MapFieldOK(v) == v.k \in {"map", "nil"}

(***************************************************************************)
(* Timestamps.  A *timestamppb.Timestamp is [seconds, nanos]; both of its  *)
(* renderings are RFC 3339 in UTC with the "Z" designator.                 *)
(***************************************************************************)
\* n in decimal, zero-padded on the left to w digits
RECURSIVE Pad(_, _)
Pad(n, w) == IF w = 0 THEN <<>> ELSE Pad(n \div 10, w - 1) \o <<48 + (n % 10)>>

\* the civil date of a day number counted from 1970-01-01 (time.Time.Date)
CivilFromDays(days) ==
    LET z == days + 719468
        era == z \div 146097
        doe == z - era * 146097
        yoe == (doe - doe \div 1460 + doe \div 36524 - doe \div 146096) \div 365
        doy == doe - (365 * yoe + yoe \div 4 - yoe \div 100)
        mp == (5 * doy + 2) \div 153
        d == doy - (153 * mp + 2) \div 5 + 1
        m == IF mp < 10 THEN mp + 3 ELSE mp - 9
        y == yoe + era * 400 + (IF m <= 2 THEN 1 ELSE 0)
    IN  [y |-> y, m |-> m, d |-> d]

\* "2006-01-02T15:04:05" of the seconds, in UTC
DateTime(seconds) ==
    LET date == CivilFromDays(seconds \div 86400)
        sod == seconds % 86400
    IN  Pad(date.y, 4) \o <<45>> \o Pad(date.m, 2) \o <<45>> \o Pad(date.d, 2)
        \o <<84>> \o Pad(sod \div 3600, 2) \o <<58>> \o Pad((sod % 3600) \div 60, 2)
        \o <<58>> \o Pad(sod % 60, 2)

\* digits with the trailing "0"s removed
RECURSIVE TrimZeros(_)
TrimZeros(digits) ==
    IF digits # <<>> /\ digits[Len(digits)] = 48
    THEN TrimZeros(SubSeq(digits, 1, Len(digits) - 1))
    ELSE digits

\* a faulty FormatRFC3339Nano: the fraction always has its nine digits
FormatRFC3339Nano_Padded(ts) ==
    DateTime(ts.seconds) \o <<46>> \o Pad(ts.nanos, 9) \o <<90>>

\* timestamp.AsTime().Format(time.RFC3339Nano): the fraction is dropped when
\* zero and otherwise written without trailing zeros
FormatRFC3339Nano(ts) ==
    DateTime(ts.seconds)
    \o (IF ts.nanos = 0 THEN <<>> ELSE <<46>> \o TrimZeros(Pad(ts.nanos, 9)))
    \o <<90>>

\* protojson's rendering of a Timestamp field, which the event marshaler
\* uses: the fraction is written with 0, 3, 6 or 9 digits
ProtoJSONTimestamp(ts) ==
    DateTime(ts.seconds)
    \o (CASE ts.nanos = 0 -> <<>>
          [] ts.nanos # 0 /\ ts.nanos % 1000000 = 0 -> <<46>> \o Pad(ts.nanos \div 1000000, 3)
          [] ts.nanos % 1000000 # 0 /\ ts.nanos % 1000 = 0 -> <<46>> \o Pad(ts.nanos \div 1000, 6)
          [] OTHER -> <<46>> \o Pad(ts.nanos, 9))
    \o <<90>>

(***************************************************************************)
(* options.go: HashOptions and the HashOption constructors.  A nil slice   *)
(* or nil pointer is the empty sequence: prefix and idcommitted are byte   *)
(* strings, committed holds at most one timestamp.  An option is given by  *)
(* its constructor's name and argument.                                    *)
(***************************************************************************)
\* o := HashOptions{}
HashOptions ==
    [ accumulateHash         |-> FALSE,
      publicFromPermissioned |-> FALSE,
      asConfirmed            |-> FALSE,
      prefix                 |-> <<>>,
      committed              |-> <<>>,
      idcommitted            |-> <<>> ]

\* v div 2^(8*k), by k shifts of one byte
\* a uint64 is four 16-bit limbs, the most significant first:
\* a * 2^48 + b * 2^32 + c * 2^16 + d
Uint64(a, b, c, d) == <<a, b, c, d>>

\* v >> (8 * k): each step moves the low byte of a limb into the top of the next
RECURSIVE ShiftRightBytes(_, _)
ShiftRightBytes(v, k) ==
    IF k = 0 THEN v
    ELSE ShiftRightBytes([i \in 1..4 |-> (IF i = 1 THEN 0 ELSE (v[i - 1] % 256) * 256)
                                             + (v[i] \div 256)], k - 1)

\* byte(v): the low 8 bits
Byte(v) == v[4] % 256

\* a faulty PutUint64: the least significant byte first
PutUint64_LittleEndian(v) == [i \in 1..8 |-> Byte(ShiftRightBytes(v, i - 1))]

\* binary.BigEndian.PutUint64 into make([]byte, 8)
PutUint64(v) == [i \in 1..8 |-> Byte(ShiftRightBytes(v, 8 - i))]

WithIDCommitted(idcommitted) == [opt |-> "WithIDCommitted", n |-> idcommitted, b |-> <<>>, ts |-> <<>>]
WithPrefix(b) == [opt |-> "WithPrefix", n |-> <<>>, b |-> b, ts |-> <<>>]
WithTimestampCommitted(committed) == [opt |-> "WithTimestampCommitted", n |-> <<>>, b |-> <<>>, ts |-> <<committed>>]
WithAccumulate == [opt |-> "WithAccumulate", n |-> <<>>, b |-> <<>>, ts |-> <<>>]
WithPublicFromPermissioned == [opt |-> "WithPublicFromPermissioned", n |-> <<>>, b |-> <<>>, ts |-> <<>>]
WithAsConfirmed == [opt |-> "WithAsConfirmed", n |-> <<>>, b |-> <<>>, ts |-> <<>>]

\* a faulty WithPrefix: the bytes replace the prefix
ApplyOption_PrefixReplaces(o, option) ==
    CASE option.opt = "WithIDCommitted" -> [o EXCEPT !.idcommitted = PutUint64(option.n)]
      [] option.opt = "WithPrefix" -> [o EXCEPT !.prefix = option.b]
      [] option.opt = "WithTimestampCommitted" -> [o EXCEPT !.committed = option.ts]
      [] option.opt = "WithAccumulate" -> [o EXCEPT !.accumulateHash = TRUE]
      [] option.opt = "WithPublicFromPermissioned" -> [o EXCEPT !.publicFromPermissioned = TRUE]
      [] option.opt = "WithAsConfirmed" -> [o EXCEPT !.asConfirmed = TRUE]

\* opt(&o): the closure each constructor returns
ApplyOption(o, option) ==
    CASE option.opt = "WithIDCommitted" -> [o EXCEPT !.idcommitted = PutUint64(option.n)]
      [] option.opt = "WithPrefix" -> [o EXCEPT !.prefix = o.prefix \o option.b]
      [] option.opt = "WithTimestampCommitted" -> [o EXCEPT !.committed = option.ts]
      [] option.opt = "WithAccumulate" -> [o EXCEPT !.accumulateHash = TRUE]
      [] option.opt = "WithPublicFromPermissioned" -> [o EXCEPT !.publicFromPermissioned = TRUE]
      [] option.opt = "WithAsConfirmed" -> [o EXCEPT !.asConfirmed = TRUE]

\* o := HashOptions{}; for _, opt := range opts { opt(&o) }
RECURSIVE ApplyOptions(_, _)
ApplyOptions(o, opts) ==
    IF opts = <<>> THEN o ELSE ApplyOptions(ApplyOption(o, Head(opts)), Tail(opts))

MakeOptions(opts) == ApplyOptions(HashOptions, opts)

(***************************************************************************)
(* hasher.go: the Hasher.  Its state is the digest input so far.           *)
(***************************************************************************)
\* sha256.New()
NewHasher == <<>>

\* hash.Hash.Write
Write(h, b) == h \o b

\* hash.Hash.Reset
HashReset(h) == <<>>

\* hash.Hash.Sum(nil): the SHA-256 digest of the input so far
HashSum(h) == [sha256 |-> h]

\* v2assets.PublicIdentityFromPermissioned
PublicIdentityFromPermissioned(id) == PublicMarker \o id

\* a faulty PermissionedIdentityFromPublic: the identity is returned as it came
PermissionedIdentityFromPublic_Keep(id) == id

\* a faulty PermissionedIdentityFromPublic: the length of the marker is cut
\* off whatever the identity starts with
PermissionedIdentityFromPublic_Blind(id) == SubSeq(id, Len(PublicMarker) + 1, Len(id))

\* v2assets.PermissionedIdentityFromPublic
PermissionedIdentityFromPublic(id) == TrimPrefix(id, PublicMarker)

\* publicevent.go
PublicFromPermissionedEvent(event) ==
    [event EXCEPT !.Identity = PublicIdentityFromPermissioned(event.Identity),
                  !.AssetIdentity = PublicIdentityFromPermissioned(event.AssetIdentity)]

\* Hasher.applyEventOptions on the caller's *EventResponse: the result is
\* the event the pointer refers to afterwards
applyEventOptions(o, event) ==
    LET e1 == IF o.publicFromPermissioned THEN PublicFromPermissionedEvent(event) ELSE event
    IN  IF o.committed # <<>> THEN [e1 EXCEPT !.TimestampCommitted = o.committed[1]] ELSE e1

\* Hasher.applyHashingOptions
\* a faulty applyHashingOptions: the id is written ahead of the prefix
applyHashingOptions_IDFirst(h, o) ==
    LET h1 == IF ~o.accumulateHash THEN HashReset(h) ELSE h
        h2 == IF o.idcommitted # <<>> THEN Write(h1, o.idcommitted) ELSE h1
    IN  IF Len(o.prefix) # 0 THEN Write(h2, o.prefix) ELSE h2

\* a faulty applyHashingOptions: the hasher is never reset
applyHashingOptions_NoReset(h, o) ==
    LET h2 == IF Len(o.prefix) # 0 THEN Write(h, o.prefix) ELSE h
    IN  IF o.idcommitted # <<>> THEN Write(h2, o.idcommitted) ELSE h2

\* a faulty applyHashingOptions: the hasher is reset whatever the options
applyHashingOptions_AlwaysReset(h, o) ==
    LET h2 == IF Len(o.prefix) # 0 THEN Write(HashReset(h), o.prefix) ELSE HashReset(h)
    IN  IF o.idcommitted # <<>> THEN Write(h2, o.idcommitted) ELSE h2

\* a faulty applyHashingOptions: the prefix and the id are written once per
\* batch, ahead of its first record only
applyHashingOptions_OncePerBatch(h, o) ==
    LET h1 == IF ~o.accumulateHash THEN HashReset(h) ELSE h
        h2 == IF Len(o.prefix) # 0 /\ h1 = <<>> THEN Write(h1, o.prefix) ELSE h1
    IN  IF o.idcommitted # <<>> /\ h1 = <<>> THEN Write(h2, o.idcommitted) ELSE h2

\* Hasher.applyHashingOptions
applyHashingOptions(h, o) ==
    LET h1 == IF ~o.accumulateHash THEN HashReset(h) ELSE h
        h2 == IF Len(o.prefix) # 0 THEN Write(h1, o.prefix) ELSE h1
    IN  IF o.idcommitted # <<>> THEN Write(h2, o.idcommitted) ELSE h2

(***************************************************************************)
(* The event structs.  An EventResponse, a V2Event and a V3Event are       *)
(* records named by their Go fields; the attribute and principal fields    *)
(* hold a value of kind "map" or "nil", the timestamps of an EventResponse *)
(* are [seconds, nanos], its ConfirmationStatus is the enum's name, and    *)
(* every other field is a byte string.                                     *)
(***************************************************************************)
\* the fields of V2Event in declaration order
V2Fields ==
    << "Identity", "AssetIdentity", "EventAttributes", "AssetAttributes",
       "Operation", "Behaviour", "TimestampDeclared", "TimestampAccepted",
       "TimestampCommitted", "PrincipalAccepted", "PrincipalDeclared",
       "ConfirmationStatus", "From", "TenantIdentity" >>

\* a faulty V3Event: the fields v2 hashes are declared as well
V3Fields_AsV2 ==
    << "Identity", "AssetIdentity", "EventAttributes", "AssetAttributes",
       "Operation", "Behaviour", "TimestampDeclared", "TimestampAccepted",
       "TimestampCommitted", "PrincipalAccepted", "PrincipalDeclared",
       "ConfirmationStatus", "From", "TenantIdentity" >>

\* the fields of V3Event in declaration order
V3Fields ==
    << "Identity", "EventAttributes", "AssetAttributes", "Operation",
       "Behaviour", "TimestampDeclared", "TimestampAccepted",
       "TimestampCommitted", "PrincipalAccepted", "PrincipalDeclared",
       "TenantIdentity" >>

\* the `json:"..."` tag of each field
FieldTag ==
    [ Identity           |-> Tag.identity,
      AssetIdentity      |-> Tag.asset_identity,
      EventAttributes    |-> Tag.event_attributes,
      AssetAttributes    |-> Tag.asset_attributes,
      Operation          |-> Tag.operation,
      Behaviour          |-> Tag.behaviour,
      TimestampDeclared  |-> Tag.timestamp_declared,
      TimestampAccepted  |-> Tag.timestamp_accepted,
      TimestampCommitted |-> Tag.timestamp_committed,
      PrincipalAccepted  |-> Tag.principal_accepted,
      PrincipalDeclared  |-> Tag.principal_declared,
      ConfirmationStatus |-> Tag.confirmation_status,
      From               |-> Tag.from,
      TenantIdentity     |-> Tag.tenant_identity ]

\* the fields of type map[string]any
IsMapField(f) ==
    f \in {"EventAttributes", "AssetAttributes", "PrincipalAccepted", "PrincipalDeclared"}

FieldSet(fields) == {fields[i] : i \in 1..Len(fields)}

\* json.Unmarshal(eventJson, &struct) for the struct with these fields:
\* [ok, e].  Bytes that are no JSON text, a JSON value that is no object,
\* and a member of the wrong type are errors; absent and null members leave
\* the zero value; other members are ignored.
StructFromJSON(doc, fields) ==
    LET zero == [f \in FieldSet(fields) |-> IF IsMapField(f) THEN NilVal ELSE <<>>]
    IN  CASE doc.k = "nil" -> [ok |-> TRUE, e |-> zero]
          [] doc.k = "map" ->
                IF \A f \in FieldSet(fields) :
                       IF IsMapField(f) THEN MapFieldOK(Lookup(doc, FieldTag[f]))
                       ELSE StringFieldOK(Lookup(doc, FieldTag[f]))
                THEN [ok |-> TRUE,
                      e |-> [f \in FieldSet(fields) |->
                                IF IsMapField(f) THEN Lookup(doc, FieldTag[f])
                                ELSE StringField(Lookup(doc, FieldTag[f]))]]
                ELSE [ok |-> FALSE, e |-> zero]
          [] OTHER -> [ok |-> FALSE, e |-> zero]

\* json.Marshal(struct) succeeds
StructMarshalable(e, fields) ==
    \A f \in FieldSet(fields) : IsMapField(f) => Marshalable(e[f])

\* json.Marshal(struct) then json.Unmarshal(eventJson, &jsonAny): the map
\* with one entry per field, keyed by the field's tag
StructToAny(e, fields) ==
    Map([i \in 1..Len(fields) |->
            << FieldTag[fields[i]],
               IF IsMapField(fields[i]) THEN Reparse(e[fields[i]]) ELSE Str(e[fields[i]]) >>])

\* the strings of the model are ASCII text or hold the byte 0xFF, which no
\* UTF-8 text holds
ValidUTF8(s) == \A i \in 1..Len(s) : s[i] < 128

\* marshaler.Marshal(event) with the flat marshaler of NewEventMarshaler:
\* the API's JSON object of the event, [ok, doc].  protojson refuses a
\* string field that is not UTF-8.
MarshalEvent(event) ==
    IF \E f \in {"Identity", "AssetIdentity", "Operation", "Behaviour", "From", "TenantIdentity"} :
           ~ValidUTF8(event[f])
    THEN [ok |-> FALSE, doc |-> Malformed]
    ELSE [ok |-> TRUE,
          doc |-> Map(<<
            <<Tag.identity, Str(event.Identity)>>,
            <<Tag.asset_identity, Str(event.AssetIdentity)>>,
            <<Tag.event_attributes, event.EventAttributes>>,
            <<Tag.asset_attributes, event.AssetAttributes>>,
            <<Tag.operation, Str(event.Operation)>>,
            <<Tag.behaviour, Str(event.Behaviour)>>,
            <<Tag.timestamp_declared, Str(ProtoJSONTimestamp(event.TimestampDeclared))>>,
            <<Tag.timestamp_accepted, Str(ProtoJSONTimestamp(event.TimestampAccepted))>>,
            <<Tag.timestamp_committed, Str(ProtoJSONTimestamp(event.TimestampCommitted))>>,
            <<Tag.principal_declared, event.PrincipalDeclared>>,
            <<Tag.principal_accepted, event.PrincipalAccepted>>,
            <<Tag.confirmation_status, Str(StatusName[event.ConfirmationStatus])>>,
            <<Tag.from, Str(event.From)>>,
            <<Tag.tenant_identity, Str(event.TenantIdentity)>> >>)]

(***************************************************************************)
(* Errors: "nil" is the nil error.                                         *)
(***************************************************************************)
ErrInvalidOption == "option not supported by this method"
ErrDecode == "json: cannot decode the event"
ErrEncode == "failed to encode the event"

(***************************************************************************)
(* schemav2.go.  A hashing method takes the Hasher's state h and returns   *)
(* [hasher, err, rec, event]: the state it leaves, the error it returns,   *)
(* the schema event it handed on to be encoded (none: <<>>), and the       *)
(* caller's event as the call leaves it.                                   *)
(***************************************************************************)
V2FromEventJSON(eventJson) == StructFromJSON(eventJson, V2Fields)

V2FromEventResponse(event) ==
    LET eventJson == MarshalEvent(event)
    IN  IF ~eventJson.ok THEN [ok |-> FALSE, e |-> StructFromJSON(NilVal, V2Fields).e]
        ELSE V2FromEventJSON(eventJson.doc)

\* [hasher, err]
V2HashEvent(h, v2Event) ==
    IF ~StructMarshalable(v2Event, V2Fields) THEN [hasher |-> h, err |-> ErrEncode]
    ELSE LET bencodeEvent == Bencode(StructToAny(v2Event, V2Fields))
         IN  IF ~bencodeEvent.ok THEN [hasher |-> h, err |-> ErrEncode]
             ELSE [hasher |-> Write(h, bencodeEvent.b), err |-> "nil"]

HasherV2_HashEvent(h, event, opts) ==
    LET o == MakeOptions(opts)
        applied == applyEventOptions(o, event)
        v2Event == V2FromEventResponse(applied)
    IN  IF ~v2Event.ok
        THEN [hasher |-> h, err |-> ErrDecode, rec |-> <<>>, event |-> applied]
        ELSE LET hashed == V2HashEvent(applyHashingOptions(h, o), v2Event.e)
             IN  [hasher |-> hashed.hasher, err |-> hashed.err,
                  rec |-> <<v2Event.e>>, event |-> applied]

HasherV2_HashEventJSON(h, event, opts) ==
    LET o == MakeOptions(opts)
        v2Event == V2FromEventJSON(event)
    IN  IF o.publicFromPermissioned
        THEN [hasher |-> h, err |-> ErrInvalidOption, rec |-> <<>>, event |-> event]
        ELSE IF ~v2Event.ok
        THEN [hasher |-> h, err |-> ErrDecode, rec |-> <<>>, event |-> event]
        ELSE LET hashed == V2HashEvent(applyHashingOptions(h, o), v2Event.e)
             IN  [hasher |-> hashed.hasher, err |-> hashed.err,
                  rec |-> <<v2Event.e>>, event |-> event]

\* a faulty Sum: the digest is taken and the hash started afresh
Hasher_Sum_Finalize(h) == [hasher |-> HashReset(h), digest |-> HashSum(h)]

\* a faulty Reset: the hash is left as it is
Hasher_Reset_Keep(h) == h

\* [hasher, digest]
Hasher_Sum(h) == [hasher |-> h, digest |-> HashSum(h)]

Hasher_Reset(h) == HashReset(h)

(***************************************************************************)
(* The HasherV2 that owns its hash.Hash (the revision before Hasher).      *)
(***************************************************************************)
HasherV2_HashEvent_0(h, event, opts) ==
    LET o == MakeOptions(opts)
        h1 == IF ~o.accumulateHash THEN HashReset(h) ELSE h
        h2 == IF Len(o.prefix) # 0 THEN Write(h1, o.prefix) ELSE h1
        e1 == IF o.publicFromPermissioned THEN PublicFromPermissionedEvent(event) ELSE event
        e2 == IF o.asConfirmed THEN [e1 EXCEPT !.ConfirmationStatus = "CONFIRMED"] ELSE e1
        e3 == IF o.committed # <<>> THEN [e2 EXCEPT !.TimestampCommitted = o.committed[1]] ELSE e2
        v2Event == V2FromEventResponse(e3)
    IN  IF ~v2Event.ok
        THEN [hasher |-> h2, err |-> ErrDecode, rec |-> <<>>, event |-> e3]
        ELSE LET h3 == IF o.idcommitted # <<>> THEN Write(h2, o.idcommitted) ELSE h2
                 hashed == V2HashEvent(h3, v2Event.e)
             IN  [hasher |-> hashed.hasher, err |-> hashed.err,
                  rec |-> <<v2Event.e>>, event |-> e3]

HasherV2_HashEventJSON_0(h, event, opts) ==
    LET o == MakeOptions(opts)
        h1 == IF ~o.accumulateHash THEN HashReset(h) ELSE h
        v2Event == V2FromEventJSON(event)
    IN  IF o.publicFromPermissioned
        THEN [hasher |-> h1, err |-> ErrInvalidOption, rec |-> <<>>, event |-> event]
        ELSE IF ~v2Event.ok
        THEN [hasher |-> h1, err |-> ErrDecode, rec |-> <<>>, event |-> event]
        ELSE LET confirmed == IF o.asConfirmed
                              THEN [v2Event.e EXCEPT !.ConfirmationStatus = StatusName.CONFIRMED]
                              ELSE v2Event.e
                 h2 == IF o.idcommitted # <<>> THEN Write(h1, o.idcommitted) ELSE h1
                 hashed == V2HashEvent(h2, confirmed)
             IN  [hasher |-> hashed.hasher, err |-> hashed.err,
                  rec |-> <<confirmed>>, event |-> event]

(***************************************************************************)
(* schemav3.go.                                                            *)
(***************************************************************************)
\* V3Event.ToPublicIdentity
ToPublicIdentity(e) == [e EXCEPT !.Identity = PublicIdentityFromPermissioned(e.Identity)]

\* V3Event.SetTimestampCommitted
SetTimestampCommitted(e, timestamp) ==
    [e EXCEPT !.TimestampCommitted = FormatRFC3339Nano(timestamp)]

\* V2Event.SetTimestampCommitted
SetTimestampCommittedV2(e, timestamp) ==
    [e EXCEPT !.TimestampCommitted = FormatRFC3339Nano(timestamp)]

\* h.applyEventOptions(o, &v3Event)
applyEventOptionsV3(o, v3Event) ==
    LET e1 == IF o.publicFromPermissioned THEN ToPublicIdentity(v3Event) ELSE v3Event
    IN  IF o.committed # <<>> THEN SetTimestampCommitted(e1, o.committed[1]) ELSE e1

\* a faulty V3FromEventJSON: the identity is left in the form it came in
V3FromEventJSON_AsGiven(eventJson) == StructFromJSON(eventJson, V3Fields)

V3FromEventJSON(eventJson) ==
    LET eventShashV3 == StructFromJSON(eventJson, V3Fields)
    IN  IF ~eventShashV3.ok THEN eventShashV3
        ELSE [ok |-> TRUE,
              e |-> [eventShashV3.e EXCEPT
                        !.Identity = PermissionedIdentityFromPublic(eventShashV3.e.Identity)]]

V3FromEventResponse(event) ==
    LET eventJson == MarshalEvent(event)
    IN  IF ~eventJson.ok THEN [ok |-> FALSE, e |-> StructFromJSON(NilVal, V3Fields).e]
        ELSE V3FromEventJSON(eventJson.doc)

\* [hasher, err]
V3HashEvent(h, v3Event) ==
    IF ~StructMarshalable(v3Event, V3Fields) THEN [hasher |-> h, err |-> ErrEncode]
    ELSE LET bencodeEvent == Bencode(StructToAny(v3Event, V3Fields))
         IN  IF ~bencodeEvent.ok THEN [hasher |-> h, err |-> ErrEncode]
             ELSE [hasher |-> Write(h, bencodeEvent.b), err |-> "nil"]

HasherV3_HashEvent(h, event, opts) ==
    LET o == MakeOptions(opts)
        v3Event == V3FromEventResponse(event)
    IN  IF ~v3Event.ok
        THEN [hasher |-> h, err |-> ErrDecode, rec |-> <<>>, event |-> event]
        ELSE LET applied == applyEventOptionsV3(o, v3Event.e)
                 hashed == V3HashEvent(applyHashingOptions(h, o), applied)
             IN  [hasher |-> hashed.hasher, err |-> hashed.err,
                  rec |-> <<applied>>, event |-> event]

HasherV3_HashEventFromJSON(h, eventJson, opts) ==
    LET o == MakeOptions(opts)
        v3Event == V3FromEventJSON(eventJson)
    IN  IF ~v3Event.ok
        THEN [hasher |-> h, err |-> ErrDecode, rec |-> <<>>, event |-> eventJson]
        ELSE LET applied == applyEventOptionsV3(o, v3Event.e)
                 hashed == V3HashEvent(applyHashingOptions(h, o), applied)
             IN  [hasher |-> hashed.hasher, err |-> hashed.err,
                  rec |-> <<applied>>, event |-> eventJson]

HasherV3_HashEventFromV3(h, v3Event, opts) ==
    LET o == MakeOptions(opts)
        applied == applyEventOptionsV3(o, v3Event)
        hashed == V3HashEvent(applyHashingOptions(h, o), applied)
    IN  [hasher |-> hashed.hasher, err |-> hashed.err,
         rec |-> <<applied>>, event |-> v3Event]

(***************************************************************************)
(* The same mapping, built in the other key order.                         *)
(***************************************************************************)
RECURSIVE ReverseKeys(_)
ReverseKeys(v) ==
    IF v.k # "map" THEN v
    ELSE Map([i \in 1..Len(v.m) |->
                <<v.m[Len(v.m) + 1 - i][1], ReverseKeys(v.m[Len(v.m) + 1 - i][2])>>])

(***************************************************************************)
(* The callers' inputs.                                                    *)
(***************************************************************************)
Text ==
    [ event1   |-> <<97, 115, 115, 101, 116, 115, 47, 49, 47, 101, 118, 101, 110, 116, 115, 47, 50>>,  \* "assets/1/events/2"
      asset1   |-> <<97, 115, 115, 101, 116, 115, 47, 49>>,                                            \* "assets/1"
      event2   |-> <<97, 115, 115, 101, 116, 115, 47, 57, 47, 101, 118, 101, 110, 116, 115, 47, 56>>,  \* "assets/9/events/8"
      asset2   |-> <<97, 115, 115, 101, 116, 115, 47, 57>>,                                            \* "assets/9"
      record   |-> <<82, 101, 99, 111, 114, 100>>,                                                     \* "Record"
      evidence |-> <<82, 101, 99, 111, 114, 100, 69, 118, 105, 100, 101, 110, 99, 101>>,               \* "RecordEvidence"
      from     |-> <<48, 120, 102, 56>>,                                                               \* "0xf8"
      tenant   |-> <<116, 101, 110, 97, 110, 116, 47, 49>>,                                            \* "tenant/1"
      foo      |-> <<102, 111, 111>>,
      bar      |-> <<98, 97, 114>>,
      fab      |-> <<102, 97, 98>>,
      baz      |-> <<98, 97, 122>>,
      make     |-> <<109, 97, 107, 101>>,
      volvo    |-> <<118, 111, 108, 118, 111>>,
      issuer   |-> <<105, 115, 115, 117, 101, 114>>,
      subject  |-> <<115, 117, 98, 106, 101, 99, 116>>,
      rkvt     |-> <<104, 116, 116, 112, 115, 58, 47, 47, 114, 107, 118, 116, 46, 99, 111, 109>>,     \* "https://rkvt.com"
      id117    |-> <<49, 49, 55>>,                                                                     \* "117"
      one      |-> <<49>> ]                                                                            \* "1"

\* 2022-10-16T13:14:50Z, ...55Z, ...59Z: the timestamps of the test events
Declared == [seconds |-> 1665926090, nanos |-> 0]
Accepted == [seconds |-> 1665926095, nanos |-> 0]
Committed == [seconds |-> 1665926099, nanos |-> 0]
\* time.Unix(1706700559, 43000000), the override of the timestamp tests
Override == [seconds |-> 1706700559, nanos |-> 43000000]

Principal == Map(<< <<Text.issuer, Str(Text.rkvt)>>, <<Text.subject, Str(Text.id117)>> >>)

\* a permissioned, CONFIRMED event in the shape of validEventsV2[0]
Event1 ==
    [ Identity           |-> Text.event1,
      AssetIdentity      |-> Text.asset1,
      EventAttributes    |-> Map(<< <<Text.foo, Str(Text.bar)>>, <<Text.fab, Str(Text.baz)>> >>),
      AssetAttributes    |-> Map(<< <<Text.fab, Str(Text.baz)>> >>),
      Operation          |-> Text.record,
      Behaviour          |-> Text.evidence,
      TimestampDeclared  |-> Declared,
      TimestampAccepted  |-> Accepted,
      TimestampCommitted |-> Committed,
      PrincipalDeclared  |-> Principal,
      PrincipalAccepted  |-> Principal,
      ConfirmationStatus |-> "CONFIRMED",
      From               |-> Text.from,
      TenantIdentity     |-> Text.tenant ]

\* Event1 with its attribute map built in the other key order
Event1Reordered ==
    [Event1 EXCEPT !.EventAttributes =
        Map(<< <<Text.fab, Str(Text.baz)>>, <<Text.foo, Str(Text.bar)>> >>)]

\* Event1 as the public attestation carries it
Event1Public ==
    [Event1 EXCEPT !.Identity = PublicMarker \o Text.event1,
                   !.AssetIdentity = PublicMarker \o Text.asset1]

\* Event1 before its confirmation
Event1Pending == [Event1 EXCEPT !.ConfirmationStatus = "PENDING"]

\* a second, PENDING event
Event2 ==
    [Event1 EXCEPT !.Identity = Text.event2,
                   !.AssetIdentity = Text.asset2,
                   !.EventAttributes = Map(<< <<Text.make, Str(Text.volvo)>> >>),
                   !.ConfirmationStatus = "PENDING"]

\* an event the marshaler refuses: a string field that is not UTF-8
EventInvalid == [Event1 EXCEPT !.From = <<255>>]

\* the API's JSON of an event
JSONOf(event) == MarshalEvent(event).doc

\* the JSON of Event1 with a number among its attributes
JSONNumber ==
    Map([i \in 1..Len(JSONOf(Event1).m) |->
            IF JSONOf(Event1).m[i][1] = Tag.event_attributes
            THEN <<Tag.event_attributes, Map(<< <<Text.foo, Num(Text.one)>> >>)>>
            ELSE JSONOf(Event1).m[i]])

\* a V3Event as V3FromEventJSON decodes it
V3Of(event) == V3FromEventJSON(JSONOf(event)).e

\* a caller-built V3Event with the public identity
V3Public == [V3Of(Event1) EXCEPT !.Identity = PublicMarker \o Text.event1]

\* a caller-built V3Event holding a value encoding/json cannot marshal
V3Unmarshalable ==
    [V3Of(Event1) EXCEPT !.EventAttributes = Map(<< <<Text.foo, ChanVal>> >>)]

\* the JSON of Event1 with the keys of every object in the other order
JSONReordered == ReverseKeys(JSONOf(Event1))

\* the domain separation prefix of the callers
Prefix1 == <<1, 2>>

\* values of idcommitted: 0x0102, zero, the largest, and 0x0102030405060708
IDCommitted1 == Uint64(0, 0, 0, 258)
IDCommittedZero == Uint64(0, 0, 0, 0)
IDCommittedMax == Uint64(65535, 65535, 65535, 65535)
IDCommittedBytes == Uint64(258, 772, 1286, 1800)

\* further pieces of a prefix
Prefix2 == <<3>>
Prefix3 == <<1>>

\* the inputs and option lists of Spec: the calls that run one digest
Events == {Event1, Event2}
JSONs == {JSONOf(Event1), JSONNumber, Malformed}
V3Events == {V3Public, V3Unmarshalable}
OptionLists ==
    { <<>>,
      <<WithAccumulate>>,
      <<WithPrefix(Prefix1), WithIDCommitted(IDCommitted1)>>,
      <<WithAccumulate, WithPrefix(Prefix1), WithIDCommitted(IDCommitted1)>>,
      <<WithPublicFromPermissioned>> }

\* the inputs and option lists of SpecRecords: one event in its different forms
RecordEvents == {Event1, Event1Reordered, Event1Public, Event1Pending, EventInvalid}
RecordJSONs == {JSONOf(Event1), JSONReordered, JSONOf(Event1Public), JSONOf(Event1Pending)}
RecordV3Events == {V3Of(Event1), V3Of(Event1Reordered), V3Public}
RecordOptionLists ==
    { <<>>,
      <<WithPrefix(Prefix1), WithIDCommitted(IDCommitted1)>>,
      <<WithPublicFromPermissioned>>,
      <<WithAsConfirmed>>,
      <<WithTimestampCommitted(Override)>> }

\* the inputs and option lists of SpecOptions: what is written ahead of a record
OptionEvents == {Event1, Event2, Event1Public}
OptionJSONs == {JSONOf(Event1), JSONOf(Event2)}
OptionV3Events == {V3Of(Event1), V3Of(Event2), V3Public}
AheadOptionLists ==
    { <<>>,
      <<WithPrefix(Prefix1), WithPrefix(Prefix2)>>,
      <<WithPrefix(Prefix2), WithPrefix(Prefix1)>>,
      <<WithPrefix(Prefix3), WithPrefix(Prefix3 \o Prefix3)>>,
      <<WithPrefix(Prefix3 \o Prefix3), WithPrefix(Prefix3)>>,
      <<WithIDCommitted(IDCommittedZero)>>,
      <<WithIDCommitted(IDCommittedMax)>>,
      <<WithPrefix(Prefix2), WithIDCommitted(IDCommittedBytes)>> }

\* the inputs and option lists of SpecV2_0: the revision of schemav2.go that owns its hash.Hash
Events_0 == {Event1, Event2, EventInvalid}
JSONs_0 == {JSONOf(Event1), JSONOf(Event2), Malformed}
OptionLists_0 ==
    { <<>>,
      <<WithAccumulate>>,
      <<WithPrefix(Prefix1), WithIDCommitted(IDCommitted1)>>,
      <<WithPublicFromPermissioned>>,
      <<WithAccumulate, WithPublicFromPermissioned>> }

(***************************************************************************)
(* The state: one hasher and the last call made on it.                     *)
(***************************************************************************)
VARIABLES
    schema,    \* the hasher the caller made: "v2", "v2_0" (the revision that owns its hash.Hash) or "v3"
    hasher,    \* the hash.Hash: the digest input since the last Reset
    n,         \* the calls folded into the running digest
    op,        \* the last method called
    arg,       \* its event argument, as passed
    options,   \* its options
    err,       \* the error it returned
    rec,       \* the schema event it handed on to be encoded
    event,     \* the caller's event after the call
    digest,    \* the bytes it returned, for Sum
    callers,   \* the goroutines inside HashEvent: where each one is, and on which hasher
    hashers,   \* the hash.Hash of each Hasher those goroutines call
    mutex      \* the sync.Mutex of the callers: whether they use one, and who holds it

vars == <<schema, hasher, n, op, arg, options, err, rec, event, digest, callers, hashers, mutex>>

\* no mutex in use
NoMutex == [used |-> FALSE, holder |-> 0]

\* one goroutine, calling in series: nothing runs beside it
concurrent == <<callers, hashers, mutex>>

\* NewHasherV2(), NewHasherV3()
Start(schemas) ==
    /\ schema \in schemas
    /\ hasher = NewHasher
    /\ n = 0
    /\ op = "New"
    /\ arg = <<>>
    /\ options = <<>>
    /\ err = "nil"
    /\ rec = <<>>
    /\ event = <<>>
    /\ digest = <<>>
    /\ callers = <<>>
    /\ hashers = <<>>
    /\ mutex = NoMutex

Init == Start({"v2", "v3"})

\* the frame of a hashing call: the bound of the model on a running digest
CanCall(opts) == MakeOptions(opts).accumulateHash => n < MaxEvents

Called(name, input, opts, result) ==
    /\ hasher' = result.hasher
    /\ err' = result.err
    /\ rec' = result.rec
    /\ event' = result.event
    /\ op' = name
    /\ arg' = input
    /\ options' = opts
    /\ digest' = <<>>
    /\ n' = IF result.hasher = hasher THEN n
            ELSE IF result.hasher = NewHasher THEN 0
            ELSE IF MakeOptions(opts).accumulateHash THEN n + 1 ELSE 1
    /\ UNCHANGED <<schema, concurrent>>

V2HashEventCall(events, optionLists) ==
    /\ schema = "v2"
    /\ \E e \in events, opts \in optionLists :
          /\ CanCall(opts)
          /\ Called("HashEvent", e, opts, HasherV2_HashEvent(hasher, e, opts))

V2HashEventJSONCall(jsons, optionLists) ==
    /\ schema = "v2"
    /\ \E j \in jsons, opts \in optionLists :
          /\ CanCall(opts)
          /\ Called("HashEventJSON", j, opts, HasherV2_HashEventJSON(hasher, j, opts))

V2HashEventCall_0(events, optionLists) ==
    /\ schema = "v2_0"
    /\ \E e \in events, opts \in optionLists :
          /\ CanCall(opts)
          /\ Called("HashEvent", e, opts, HasherV2_HashEvent_0(hasher, e, opts))

V2HashEventJSONCall_0(jsons, optionLists) ==
    /\ schema = "v2_0"
    /\ \E j \in jsons, opts \in optionLists :
          /\ CanCall(opts)
          /\ Called("HashEventJSON", j, opts, HasherV2_HashEventJSON_0(hasher, j, opts))

V3HashEventCall(events, optionLists) ==
    /\ schema = "v3"
    /\ \E e \in events, opts \in optionLists :
          /\ CanCall(opts)
          /\ Called("HashEvent", e, opts, HasherV3_HashEvent(hasher, e, opts))

V3HashEventFromJSONCall(jsons, optionLists) ==
    /\ schema = "v3"
    /\ \E j \in jsons, opts \in optionLists :
          /\ CanCall(opts)
          /\ Called("HashEventFromJSON", j, opts, HasherV3_HashEventFromJSON(hasher, j, opts))

V3HashEventFromV3Call(v3Events, optionLists) ==
    /\ schema = "v3"
    /\ \E e \in v3Events, opts \in optionLists :
          /\ CanCall(opts)
          /\ Called("HashEventFromV3", e, opts, HasherV3_HashEventFromV3(hasher, e, opts))

SumCall ==
    /\ hasher' = Hasher_Sum(hasher).hasher
    /\ digest' = <<Hasher_Sum(hasher).digest>>
    /\ op' = "Sum"
    /\ arg' = <<>>
    /\ options' = <<>>
    /\ err' = "nil"
    /\ rec' = <<>>
    /\ event' = <<>>
    /\ UNCHANGED <<schema, n, concurrent>>

ResetCall ==
    /\ hasher' = Hasher_Reset(hasher)
    /\ n' = 0
    /\ op' = "Reset"
    /\ arg' = <<>>
    /\ options' = <<>>
    /\ err' = "nil"
    /\ rec' = <<>>
    /\ event' = <<>>
    /\ digest' = <<>>
    /\ UNCHANGED <<schema, concurrent>>

\* the Hasher revision: HasherV2 and HasherV3 over one digest
Next ==
    \/ V2HashEventCall(Events, OptionLists)
    \/ V2HashEventJSONCall(JSONs, OptionLists)
    \/ V3HashEventCall(Events, OptionLists)
    \/ V3HashEventFromJSONCall(JSONs, OptionLists)
    \/ V3HashEventFromV3Call(V3Events, OptionLists)
    \/ SumCall
    \/ ResetCall

Spec == Init /\ [][Next]_vars

\* the same hashers, given one event in its different forms
NextRecords ==
    \/ V2HashEventCall(RecordEvents, RecordOptionLists)
    \/ V2HashEventJSONCall(RecordJSONs, RecordOptionLists)
    \/ V3HashEventCall(RecordEvents, RecordOptionLists)
    \/ V3HashEventFromJSONCall(RecordJSONs, RecordOptionLists)
    \/ V3HashEventFromV3Call(RecordV3Events, RecordOptionLists)
    \/ SumCall
    \/ ResetCall

SpecRecords == Init /\ [][NextRecords]_vars

\* the same hashers, given prefixes and id commitments
NextOptions ==
    \/ V2HashEventCall(OptionEvents, AheadOptionLists)
    \/ V2HashEventJSONCall(OptionJSONs, AheadOptionLists)
    \/ V3HashEventCall(OptionEvents, AheadOptionLists)
    \/ V3HashEventFromJSONCall(OptionJSONs, AheadOptionLists)
    \/ V3HashEventFromV3Call(OptionV3Events, AheadOptionLists)

SpecOptions == Init /\ [][NextOptions]_vars

\* the revision of HasherV2 that owns its hash.Hash
Init_0 == Start({"v2_0"})

Next_0 ==
    \/ V2HashEventCall_0(Events_0, OptionLists_0)
    \/ V2HashEventJSONCall_0(JSONs_0, OptionLists_0)
    \/ SumCall
    \/ ResetCall

SpecV2_0 == Init_0 /\ [][Next_0]_vars

(***************************************************************************)
(* What the checks below read off a state.                                 *)
(***************************************************************************)
HashOps == {"HashEvent", "HashEventJSON", "HashEventFromJSON", "HashEventFromV3"}

\* the fields of the schema event of a hasher
Fields(s) == IF s = "v3" THEN V3Fields ELSE V2Fields

\* the canonical encoding of a schema event: what V2HashEvent and V3HashEvent write
Encoded(s, r) == Bencode(StructToAny(r, Fields(s))).b

\* the method `name` of the hasher `s`, called on a hasher holding h
Dispatch(s, name, h, input, opts) ==
    CASE s = "v2" /\ name = "HashEvent" -> HasherV2_HashEvent(h, input, opts)
      [] s = "v2" /\ name = "HashEventJSON" -> HasherV2_HashEventJSON(h, input, opts)
      [] s = "v2_0" /\ name = "HashEvent" -> HasherV2_HashEvent_0(h, input, opts)
      [] s = "v2_0" /\ name = "HashEventJSON" -> HasherV2_HashEventJSON_0(h, input, opts)
      [] s = "v3" /\ name = "HashEvent" -> HasherV3_HashEvent(h, input, opts)
      [] s = "v3" /\ name = "HashEventFromJSON" -> HasherV3_HashEventFromJSON(h, input, opts)
      [] s = "v3" /\ name = "HashEventFromV3" -> HasherV3_HashEventFromV3(h, input, opts)

(***************************************************************************)
(* The digest input.                                                       *)
(***************************************************************************)
\* C1: a successful call of any hashing entry point appends to the digest
\* input exactly the prefix (if any), then the 8 id bytes (if configured),
\* then the canonical encoding of the record, and nothing else; the input it
\* appends to is the one before the call with accumulate, the empty one
\* without.
C1_OrderingContract ==
    [][ (op' \in HashOps /\ err' = "nil") =>
          LET o == MakeOptions(options')
          IN  /\ rec' # <<>>
              /\ o.idcommitted # <<>> => Len(o.idcommitted) = 8
              /\ hasher' = (IF o.accumulateHash THEN hasher ELSE <<>>)
                               \o o.prefix \o o.idcommitted \o Encoded(schema, rec'[1]) ]_vars

\* a second accumulating call with a prefix and an id has succeeded
C1_Witness ==
    /\ op \in HashOps
    /\ err = "nil"
    /\ options = <<WithAccumulate, WithPrefix(Prefix1), WithIDCommitted(IDCommitted1)>>
    /\ n = 2
    /\ Len(hasher) > 2 * (Len(Prefix1) + 8)

\* C2: after a successful hashing call without accumulate the digest input is
\* what the same call writes on a new hasher (prefix, id, record), whatever
\* calls came before it.
C2_FreshWithoutAccumulate ==
    (op \in HashOps /\ err = "nil" /\ ~MakeOptions(options).accumulateHash) =>
        /\ hasher = Dispatch(schema, op, NewHasher, arg, options).hasher
        /\ hasher = MakeOptions(options).prefix \o MakeOptions(options).idcommitted
                        \o Encoded(schema, rec[1])

\* a call without accumulate has succeeded with a prefix and an id
C2_Witness ==
    /\ op \in HashOps
    /\ err = "nil"
    /\ options = <<WithPrefix(Prefix1), WithIDCommitted(IDCommitted1)>>
    /\ hasher = Prefix1 \o PutUint64(IDCommitted1) \o Encoded(schema, rec[1])

\* C3: on an empty digest input, e1 then e2 hashed with accumulate and no
\* prefix or id leave encode(e1) ++ encode(e2), which is neither encode(e1)
\* nor encode(e2) (what e2 leaves after a reset between the two).
C3_AccumulateLaw ==
    [][ ( /\ op \in HashOps /\ err = "nil" /\ n = 1
          /\ options \in {<<>>, <<WithAccumulate>>}
          /\ op' \in HashOps /\ err' = "nil"
          /\ options' = <<WithAccumulate>> ) =>
          /\ hasher = Encoded(schema, rec[1])
          /\ hasher' = Encoded(schema, rec[1]) \o Encoded(schema, rec'[1])
          /\ hasher' # Encoded(schema, rec[1])
          /\ hasher' # Encoded(schema, rec'[1])
          /\ hasher' # Dispatch(schema, op', Hasher_Reset(hasher), arg', options').hasher ]_vars

\* Event1 then Event2 have been accumulated by HashEvent
C3_Witness ==
    /\ op = "HashEvent"
    /\ options = <<WithAccumulate>>
    /\ err = "nil"
    /\ n = 2
    /\ arg = Event2
    /\ hasher = Dispatch(schema, "HashEvent", NewHasher, Event1, <<>>).hasher
                    \o Dispatch(schema, "HashEvent", NewHasher, Event2, <<>>).hasher

\* C4: Sum leaves the digest input as it is and returns its digest, so a
\* second Sum returns the same digest and the calls that follow a Sum write
\* to the input they would have written to without it.
C4_SumPeeks ==
    [][ op' = "Sum" =>
          /\ hasher' = hasher
          /\ digest' = <<HashSum(hasher)>>
          /\ (op = "Sum" => digest' = digest) ]_vars

\* Sum has been called on a digest of two accumulated events
C4_Witness ==
    /\ op = "Sum"
    /\ n = 2
    /\ hasher # NewHasher
    /\ digest = <<HashSum(hasher)>>

\* C5: after Reset the hasher is the one NewHasher makes: its digest is that
\* of the empty input and every call on it returns what it returns on a new
\* hasher.
C5_ResetDiscards ==
    op = "Reset" =>
        /\ hasher = NewHasher
        /\ Hasher_Sum(hasher).digest = HashSum(<<>>)
        /\ n = 0

\* Reset has been called
C5_Witness == op = "Reset" /\ hasher = NewHasher

(***************************************************************************)
(* The record that is encoded.                                             *)
(***************************************************************************)
\* the fields of an EventResponse and of a V3Event that hold a Go map
EventMaps == {"EventAttributes", "AssetAttributes", "PrincipalDeclared", "PrincipalAccepted"}

\* the argument of a hashing call with its mappings built in the other key order
Reordered(name, input) ==
    IF name \in {"HashEvent", "HashEventFromV3"}
    THEN [f \in DOMAIN input |-> IF f \in EventMaps THEN ReverseKeys(input[f]) ELSE input[f]]
    ELSE ReverseKeys(input)

\* C6: for one schema and one list of options, an event and the same event
\* with its attribute and principal mappings (and the keys of its JSON) in
\* another order are encoded to the same bytes and leave the same digest
\* input, and that input is made of the prefix, the id and the encoding of
\* the normalized record alone.
C6_KeyOrderIndependent ==
    (op \in HashOps /\ err = "nil") =>
        LET other == Dispatch(schema, op, NewHasher, Reordered(op, arg), options)
            o == MakeOptions(options)
        IN  /\ other.err = "nil"
            /\ Encoded(schema, other.rec[1]) = Encoded(schema, rec[1])
            /\ ~o.accumulateHash =>
                  /\ other.hasher = hasher
                  /\ HashSum(other.hasher) = HashSum(hasher)
                  /\ hasher = o.prefix \o o.idcommitted \o Encoded(schema, rec[1])

\* the event whose attributes were built in the other order has been hashed,
\* and to the digest input of Event1
C6_Witness ==
    /\ op = "HashEvent"
    /\ err = "nil"
    /\ arg = Event1Reordered
    /\ arg.EventAttributes # Event1.EventAttributes
    /\ hasher = Dispatch(schema, "HashEvent", NewHasher, Event1, options).hasher

\* C7: HashEventJSON of v2 with WithPublicFromPermissioned returns
\* ErrInvalidOption and leaves the digest input as it was, with or without
\* accumulate.
C7_InvalidOptionLeavesDigest ==
    [][ (op' = "HashEventJSON" /\ MakeOptions(options').publicFromPermissioned) =>
          /\ err' = ErrInvalidOption
          /\ hasher' = hasher
          /\ HashSum(hasher') = HashSum(hasher) ]_vars

\* C8: a hashing call that returns an error leaves the digest input as it
\* was: no reset, prefix or id of the failed call stays applied.
C8_AllOrNothing ==
    [][ (op' \in HashOps /\ err' # "nil") => hasher' = hasher ]_vars

\* C9: the record a v3 entry point encodes never holds the public form of
\* the identity; stated here for the calls made without
\* WithPublicFromPermissioned, which the claim covers as it does the others.
C9_NeverPublic ==
    (schema = "v3" /\ op \in HashOps /\ rec # <<>>
        /\ ~MakeOptions(options).publicFromPermissioned) =>
        ~HasPrefix(rec[1].Identity, PublicMarker)

\* the other form of an identity
OtherForm(id) ==
    IF HasPrefix(id, PublicMarker) THEN TrimPrefix(id, PublicMarker)
    ELSE PublicIdentityFromPermissioned(id)

\* the argument of HashEvent or HashEventFromJSON with its identity in the other form
Twin(name, input) ==
    IF name = "HashEvent" THEN [input EXCEPT !.Identity = OtherForm(@)]
    ELSE Map([i \in 1..Len(input.m) |->
                IF input.m[i][1] = Tag.identity
                THEN <<Tag.identity, Str(OtherForm(input.m[i][2].s))>>
                ELSE input.m[i]])

\* V3FromEventResponse or V3FromEventJSON, as the entry point calls it
Normalized(name, input) ==
    IF name = "HashEvent" THEN V3FromEventResponse(input) ELSE V3FromEventJSON(input)

\* C10: v3 normalizes an input and the input that differs from it only in
\* the form of the identity (public or permissioned) to the same record,
\* which holds the permissioned identity, and hashing the two with the same
\* options leaves the same digest.
C10_IdentityNormalized ==
    (schema = "v3" /\ op \in {"HashEvent", "HashEventFromJSON"} /\ err = "nil") =>
        LET mine == Normalized(op, arg)
            theirs == Normalized(op, Twin(op, arg))
            other == Dispatch(schema, op, NewHasher, Twin(op, arg), options)
        IN  /\ mine.ok /\ theirs.ok
            /\ mine.e = theirs.e
            /\ ~HasPrefix(mine.e.Identity, PublicMarker)
            /\ other.err = "nil"
            /\ Encoded(schema, other.rec[1]) = Encoded(schema, rec[1])
            /\ ~MakeOptions(options).accumulateHash =>
                  /\ other.hasher = hasher
                  /\ HashSum(other.hasher) = HashSum(hasher)

\* the JSON that carries the public identity has been hashed, as the record
\* with the permissioned one
C10_Witness ==
    /\ schema = "v3"
    /\ op = "HashEventFromJSON"
    /\ err = "nil"
    /\ arg = JSONOf(Event1Public)
    /\ HasPrefix(Lookup(arg, Tag.identity).s, PublicMarker)
    /\ rec[1].Identity = Text.event1

(***************************************************************************)
(* The identity translators on their own: a caller translating identities  *)
(* back and forth.  arg is the identity passed, rec the one returned.      *)
(***************************************************************************)
\* the identities of the callers: the texts of the events, the beginnings
\* of the marker, and texts that hold the marker further in
Identities ==
    {SubSeq(PublicMarker, 1, k) : k \in 0..Len(PublicMarker)}
        \cup {Text.event1, Text.asset1, Text.event2, Text.asset2, Text.tenant, Text.from,
              Text.foo, Text.record}
        \cup {Text.foo \o PublicMarker, Text.asset1 \o PublicMarker,
              <<47>> \o PublicMarker \o Text.asset1}

\* the markers an identity starts with
RECURSIVE Markers(_)
Markers(id) ==
    IF HasPrefix(id, PublicMarker) THEN 1 + Markers(TrimPrefix(id, PublicMarker)) ELSE 0

\* the identity of the next call: one of the callers', or the one just returned
NextIdentities == Identities \cup {rec[i] : i \in 1..Len(rec)}

Translated(name, id, result) ==
    /\ op' = name
    /\ arg' = id
    /\ rec' = <<result>>
    /\ UNCHANGED <<schema, hasher, n, options, err, event, digest, concurrent>>

PublicIdentityFromPermissionedCall ==
    \E id \in NextIdentities :
        /\ Markers(id) < MaxMarkers
        /\ Translated("PublicIdentityFromPermissioned", id, PublicIdentityFromPermissioned(id))

PermissionedIdentityFromPublicCall ==
    \E id \in NextIdentities :
        Translated("PermissionedIdentityFromPublic", id, PermissionedIdentityFromPublic(id))

NextIdentity ==
    \/ PublicIdentityFromPermissionedCall
    \/ PermissionedIdentityFromPublicCall

SpecIdentity == Init /\ [][NextIdentity]_vars

\* C11: the public form of an identity that does not start with the marker
\* is the marker followed by the identity, and its permissioned form is the
\* identity again.
C11_IdentityRoundTrip ==
    (op = "PublicIdentityFromPermissioned" /\ ~HasPrefix(arg, PublicMarker)) =>
        /\ rec[1] = PublicMarker \o arg
        /\ PermissionedIdentityFromPublic(rec[1]) = arg

\* "assets/1/events/2" has been translated to "publicassets/1/events/2"
C11_Witness ==
    /\ op = "PublicIdentityFromPermissioned"
    /\ arg = Text.event1
    /\ rec = <<PublicMarker \o Text.event1>>

WithValue(doc, key, value) ==
    Map([i \in 1..Len(doc.m) |-> IF doc.m[i][1] = key THEN <<key, value>> ELSE doc.m[i]])

\* the argument of HashEvent or HashEventJSON as the confirmed event has it
Confirmed(name, input) ==
    IF name = "HashEvent" THEN [input EXCEPT !.ConfirmationStatus = "CONFIRMED"]
    ELSE WithValue(input, Tag.confirmation_status, Str(StatusName.CONFIRMED))

\* C13: a successful v2 HashEvent or HashEventJSON with WithAsConfirmed
\* encodes a record whose confirmation status is "CONFIRMED", and leaves the
\* digest of the same event with the status CONFIRMED hashed without the
\* option.
C13_AsConfirmed ==
    (schema = "v2" /\ op \in {"HashEvent", "HashEventJSON"} /\ err = "nil"
        /\ MakeOptions(options).asConfirmed /\ ~MakeOptions(options).accumulateHash) =>
        /\ rec[1].ConfirmationStatus = StatusName.CONFIRMED
        /\ hasher = Dispatch(schema, op, NewHasher, Confirmed(op, arg), <<>>).hasher

\* the argument of a v2 call as the event committed at t has it
CommittedAt(name, input, t) ==
    IF name = "HashEvent" THEN [input EXCEPT !.TimestampCommitted = t]
    ELSE WithValue(input, Tag.timestamp_committed, Str(ProtoJSONTimestamp(t)))

\* C14: a successful hashing call with WithTimestampCommitted(t) leaves the
\* digest of the same event whose committed timestamp is t, hashed without
\* the option; stated here for the entry points of v2, which the claim
\* covers as it does those of v3.
C14_CommittedOverride ==
    (schema = "v2" /\ op \in {"HashEvent", "HashEventJSON"} /\ err = "nil"
        /\ MakeOptions(options).committed # <<>> /\ ~MakeOptions(options).accumulateHash) =>
        LET t == MakeOptions(options).committed[1]
            other == Dispatch(schema, op, NewHasher, CommittedAt(op, arg, t), <<>>)
        IN  /\ rec[1].TimestampCommitted = other.rec[1].TimestampCommitted
            /\ hasher = other.hasher

(***************************************************************************)
(* The options that are written ahead of the record.                       *)
(***************************************************************************)
IsPrefix(option) == option.opt = "WithPrefix"
IsOther(option) == option.opt # "WithPrefix"

\* the byte strings of a sequence, one after the other
RECURSIVE Concat(_)
Concat(pieces) == IF pieces = <<>> THEN <<>> ELSE Head(pieces) \o Concat(Tail(pieces))

\* the bytes of the WithPrefix options of a call, in the order they were given
Pieces(opts) ==
    LET given == SelectSeq(opts, IsPrefix) IN [i \in 1..Len(given) |-> given[i].b]

\* a sequence in the reverse order
Reverse(seq) == [i \in 1..Len(seq) |-> seq[Len(seq) + 1 - i]]

\* C15, as it holds: the WithPrefix options of one call configure the
\* concatenation of their bytes in the order given, so the digest input is
\* that of the single WithPrefix of the concatenation; given in the reverse
\* order they leave the concatenation in that order ahead of the record,
\* which is a different digest input exactly when the two concatenations
\* differ.
C15_PrefixInOrder ==
    (op \in HashOps /\ err = "nil" /\ ~MakeOptions(options).accumulateHash
        /\ Pieces(options) # <<>>) =>
        LET joined == Concat(Pieces(options))
            back == Concat(Reverse(Pieces(options)))
            single == <<WithPrefix(joined)>> \o SelectSeq(options, IsOther)
            swapped == Dispatch(schema, op, NewHasher, arg, Reverse(options))
        IN  /\ MakeOptions(options).prefix = joined
            /\ SubSeq(hasher, 1, Len(joined)) = joined
            /\ hasher = Dispatch(schema, op, NewHasher, arg, single).hasher
            /\ swapped.err = "nil"
            /\ swapped.hasher = back \o SubSeq(hasher, Len(joined) + 1, Len(hasher))
            /\ (swapped.hasher # hasher) <=> (back # joined)

\* WithPrefix(1 2), WithPrefix(3) have left 1 2 3 ahead of the record
C15_Witness ==
    /\ op \in HashOps
    /\ err = "nil"
    /\ options = <<WithPrefix(Prefix1), WithPrefix(Prefix2)>>
    /\ SubSeq(hasher, 1, 3) = <<1, 2, 3>>
    /\ Len(hasher) > 3

\* C15, as claimed: the same pieces given in a different order leave a
\* different digest input.
C15_OrderAlwaysMatters ==
    (op \in HashOps /\ err = "nil" /\ ~MakeOptions(options).accumulateHash
        /\ Reverse(Pieces(options)) # Pieces(options)) =>
        Dispatch(schema, op, NewHasher, arg, Reverse(options)).hasher # hasher

IsIDCommitted(option) == option.opt = "WithIDCommitted"

\* (v div 256^k) mod 256: the digit k of v written in base 256
Digit256(v, k) ==
    LET limb == v[4 - (k \div 2)] IN IF k % 2 = 0 THEN limb % 256 ELSE limb \div 256

\* C16: for every value v given by WithIDCommitted, zero included, exactly 8
\* bytes stand between the prefix and the record bytes, byte i (from 0) being
\* (v div 256^(7-i)) mod 256; without the option the record bytes follow the
\* prefix directly.
C16_IDCommittedBigEndian ==
    (op \in HashOps /\ err = "nil" /\ ~MakeOptions(options).accumulateHash) =>
        LET given == SelectSeq(options, IsIDCommitted)
            prefix == MakeOptions(options).prefix
            body == Encoded(schema, rec[1])
        IN  IF given = <<>> THEN hasher = prefix \o body
            ELSE /\ Len(hasher) = Len(prefix) + 8 + Len(body)
                 /\ SubSeq(hasher, 1, Len(prefix)) = prefix
                 /\ \A i \in 0..7 :
                        hasher[Len(prefix) + 1 + i] = Digit256(given[Len(given)].n, 7 - i)
                 /\ SubSeq(hasher, Len(prefix) + 9, Len(hasher)) = body

\* the value zero has been written as eight zero bytes ahead of the record
C16_Witness ==
    /\ op \in HashOps
    /\ err = "nil"
    /\ options = <<WithIDCommitted(IDCommittedZero)>>
    /\ hasher = <<0, 0, 0, 0, 0, 0, 0, 0>> \o Encoded(schema, rec[1])

(***************************************************************************)
(* The two inputs of v2.                                                   *)
(***************************************************************************)
\* C17: with options that both HashEvent and HashEventJSON of v2 accept
\* (any but WithPublicFromPermissioned), hashing an event and hashing the
\* API's JSON of the same event end alike, with the same record and the same
\* digest input.
C17_PathsAgree ==
    (schema = "v2" /\ op = "HashEvent" /\ ~MakeOptions(options).publicFromPermissioned
        /\ ~MakeOptions(options).accumulateHash) =>
        LET json == HasherV2_HashEventJSON(NewHasher, JSONOf(arg), options)
        IN  /\ json.err = err
            /\ json.rec = rec
            /\ err = "nil" => json.hasher = hasher

(***************************************************************************)
(* The fields v3 leaves out.                                               *)
(***************************************************************************)
\* the events that differ from an event in the asset identity, the
\* confirmation status, the originating address, or several of them
Differing(e) ==
    { [e EXCEPT !.AssetIdentity = a, !.ConfirmationStatus = c, !.From = f] :
        a \in {e.AssetIdentity, Text.asset2},
        c \in {"PENDING", "CONFIRMED"},
        f \in {e.From, Text.foo} } \ {e}

\* the same events as the API's JSON of them
DifferingJSON(doc) ==
    { WithValue(WithValue(WithValue(doc, Tag.asset_identity, Str(a)),
                          Tag.confirmation_status, Str(StatusName[c])),
                Tag.from, Str(f)) :
        a \in {Text.asset1, Text.asset2},
        c \in {"PENDING", "CONFIRMED"},
        f \in {Text.from, Text.foo} } \ {doc}

\* the form of an event that the method `name` takes
DifferingInput(name, input) ==
    IF name = "HashEvent" THEN Differing(input) ELSE DifferingJSON(input)

\* C18: an event that differs from a successfully hashed one only in asset
\* identity, confirmation status and originating address leaves, under the
\* same options, the same v3 record and the same v3 digest input; under v2
\* the three fields are in the record and the digest input differs.
C18_NarrowedSurface ==
    (schema = "v3" /\ op \in {"HashEvent", "HashEventFromJSON"} /\ err = "nil"
        /\ ~MakeOptions(options).accumulateHash) =>
        \A other \in DifferingInput(op, arg) :
            LET v3 == Dispatch("v3", op, NewHasher, other, options)
                name == IF op = "HashEvent" THEN "HashEvent" ELSE "HashEventJSON"
                v2 == Dispatch("v2", name, NewHasher, other, <<>>)
                own == Dispatch("v2", name, NewHasher, arg, <<>>)
                doc == IF op = "HashEvent" THEN JSONOf(other) ELSE other
            IN  /\ v3.err = "nil"
                /\ v3.rec = rec
                /\ v3.hasher = hasher
                /\ v2.err = "nil" /\ own.err = "nil"
                /\ Str(v2.rec[1].AssetIdentity) = Lookup(doc, Tag.asset_identity)
                /\ Str(v2.rec[1].ConfirmationStatus) = Lookup(doc, Tag.confirmation_status)
                /\ Str(v2.rec[1].From) = Lookup(doc, Tag.from)
                /\ v2.rec # own.rec
                /\ v2.hasher # own.hasher

\* the PENDING event has been hashed by v3 to the digest input of the
\* CONFIRMED one
C18_Witness ==
    /\ schema = "v3"
    /\ op = "HashEvent"
    /\ err = "nil"
    /\ arg = Event1Pending
    /\ hasher # <<>>
    /\ hasher = HasherV3_HashEvent(NewHasher, Event1, options).hasher

(***************************************************************************)
(* The caller's event.                                                     *)
(***************************************************************************)
\* C19: whatever the options, after HashEvent returns the event the caller
\* passed has the identity, the asset identity, the committed timestamp and
\* the confirmation status it had before the call.
C19_EventReadOnly ==
    (op = "HashEvent") =>
        /\ event.Identity = arg.Identity
        /\ event.AssetIdentity = arg.AssetIdentity
        /\ event.TimestampCommitted = arg.TimestampCommitted
        /\ event.ConfirmationStatus = arg.ConfirmationStatus

(***************************************************************************)
(* WithPublicFromPermissioned and v3.                                      *)
(***************************************************************************)
\* C20: HashEventFromJSON of v3 called with WithPublicFromPermissioned
\* returns ErrInvalidOption and leaves the digest input as it was, while
\* HashEvent of v3 takes the same option without error.
C20_JSONPathRejects ==
    [][ (schema = "v3" /\ MakeOptions(options').publicFromPermissioned) =>
          /\ op' = "HashEventFromJSON" => (err' = ErrInvalidOption /\ hasher' = hasher)
          /\ (op' = "HashEvent" /\ MarshalEvent(arg').ok) => err' = "nil" ]_vars

(***************************************************************************)
(* SetTimestampCommitted alone.                                            *)
(***************************************************************************)
\* a V2Event as V2FromEventJSON decodes it
V2Of(e) == V2FromEventJSON(JSONOf(e)).e

\* "2023-02-23T10:11:08.761Z", the committed time the timestamp tests start from
OriginalTimestamp == <<50, 48, 50, 51, 45, 48, 50, 45, 50, 51, 84, 49, 48, 58, 49, 49, 58, 48, 56, 46, 55, 54, 49, 90>>

\* "2024-01-31T11:29:19.043Z", the text the timestamp tests expect
ExpectedTimestamp == <<50, 48, 50, 52, 45, 48, 49, 45, 51, 49, 84, 49, 49, 58, 50, 57, 58, 49, 57, 46, 48, 52, 51, 90>>

\* the committed times a schema event holds before the call
PriorTimestamps == {OriginalTimestamp, FormatRFC3339Nano(Committed), <<>>}

\* the timestamps a caller passes: before and at the epoch, a leap day, the
\* times of the test events, with fractions of one to nine digits
Timestamps ==
    { [seconds |-> sec, nanos |-> ns] :
        sec \in {0 - 1, 0, 951827696, Committed.seconds, Override.seconds},
        ns \in {0, 1, Override.nanos, 500000000, 999999999} }

SetCalled(e, timestamp, result) ==
    /\ op' = "SetTimestampCommitted"
    /\ arg' = [e |-> e, timestamp |-> timestamp]
    /\ rec' = <<result>>
    /\ UNCHANGED <<schema, hasher, n, options, err, event, digest, concurrent>>

V2SetTimestampCommittedCall ==
    /\ schema = "v2"
    /\ \E prior \in PriorTimestamps, timestamp \in Timestamps :
          LET e == [V2Of(Event1) EXCEPT !.TimestampCommitted = prior]
          IN  SetCalled(e, timestamp, SetTimestampCommittedV2(e, timestamp))

V3SetTimestampCommittedCall ==
    /\ schema = "v3"
    /\ \E prior \in PriorTimestamps, timestamp \in Timestamps :
          LET e == [V3Of(Event1) EXCEPT !.TimestampCommitted = prior]
          IN  SetCalled(e, timestamp, SetTimestampCommitted(e, timestamp))

NextTimestamp ==
    \/ V2SetTimestampCommittedCall
    \/ V3SetTimestampCommittedCall

SpecTimestamp == Init /\ [][NextTimestamp]_vars

\* the number written by decimal digits
RECURSIVE Number(_)
Number(digits) ==
    IF digits = <<>> THEN 0
    ELSE Number(SubSeq(digits, 1, Len(digits) - 1)) * 10 + (digits[Len(digits)] - 48)

RECURSIVE Pow10(_)
Pow10(k) == IF k = 0 THEN 1 ELSE 10 * Pow10(k - 1)

\* the day number, counted from 1970-01-01, of a civil date
DaysFromCivil(y, m, d) ==
    LET yy == IF m <= 2 THEN y - 1 ELSE y
        era == yy \div 400
        yoe == yy - era * 400
        mp == (m + 9) % 12
        doy == (153 * mp + 2) \div 5 + d - 1
        doe == yoe * 365 + yoe \div 4 - yoe \div 100 + doy
    IN  era * 146097 + doe - 719468

\* the instant an RFC 3339 text "yyyy-mm-ddThh:mm:ss[.f]Z" denotes
InstantOf(text) ==
    LET days == DaysFromCivil(Number(SubSeq(text, 1, 4)), Number(SubSeq(text, 6, 7)),
                              Number(SubSeq(text, 9, 10)))
        sod == Number(SubSeq(text, 12, 13)) * 3600 + Number(SubSeq(text, 15, 16)) * 60
                   + Number(SubSeq(text, 18, 19))
        fraction == SubSeq(text, 21, Len(text) - 1)
    IN  [seconds |-> days * 86400 + sod,
         nanos |-> Number(fraction) * Pow10(9 - Len(fraction))]

\* C21: SetTimestampCommitted(ts) on a v2 or v3 schema event leaves, whatever
\* the committed time was, the RFC 3339 text of ts in UTC: it ends in "Z",
\* denotes the instant ts, has no fraction when the nanoseconds are zero and
\* otherwise a fraction that does not end in "0", and no other field is
\* changed; time.Unix(1706700559, 43000000) gives "2024-01-31T11:29:19.043Z".
C21_TimestampFormat ==
    (op = "SetTimestampCommitted") =>
        LET text == rec[1].TimestampCommitted
            ts == arg.timestamp
        IN  /\ rec[1] = [arg.e EXCEPT !.TimestampCommitted = text]
            /\ Len(text) >= 20
            /\ text[Len(text)] = 90
            /\ <<text[5], text[8], text[11], text[14], text[17]>> = <<45, 45, 84, 58, 58>>
            /\ InstantOf(text) = ts
            /\ IF ts.nanos = 0 THEN Len(text) = 20
               ELSE /\ text[20] = 46
                    /\ Len(text) \in 22..30
                    /\ text[Len(text) - 1] # 48
            /\ ts = Override => text = ExpectedTimestamp

\* the override of the tests has replaced the committed time of a v3 event
C21_Witness ==
    /\ op = "SetTimestampCommitted"
    /\ schema = "v3"
    /\ arg.e.TimestampCommitted = OriginalTimestamp
    /\ arg.timestamp = Override
    /\ rec[1].TimestampCommitted = ExpectedTimestamp

(***************************************************************************)
(* crypto/sha256: the digest of the bytes written to the hash.Hash.  A     *)
(* 32-bit word is a pair of 16-bit halves, the high one first.             *)
(***************************************************************************)
\* a ^ b and a & b of two hexadecimal digits, at [a + 1][b + 1]
Xor4 ==
    <<
       << 0,  1,  2,  3,  4,  5,  6,  7,  8,  9, 10, 11, 12, 13, 14, 15>>,
       << 1,  0,  3,  2,  5,  4,  7,  6,  9,  8, 11, 10, 13, 12, 15, 14>>,
       << 2,  3,  0,  1,  6,  7,  4,  5, 10, 11,  8,  9, 14, 15, 12, 13>>,
       << 3,  2,  1,  0,  7,  6,  5,  4, 11, 10,  9,  8, 15, 14, 13, 12>>,
       << 4,  5,  6,  7,  0,  1,  2,  3, 12, 13, 14, 15,  8,  9, 10, 11>>,
       << 5,  4,  7,  6,  1,  0,  3,  2, 13, 12, 15, 14,  9,  8, 11, 10>>,
       << 6,  7,  4,  5,  2,  3,  0,  1, 14, 15, 12, 13, 10, 11,  8,  9>>,
       << 7,  6,  5,  4,  3,  2,  1,  0, 15, 14, 13, 12, 11, 10,  9,  8>>,
       << 8,  9, 10, 11, 12, 13, 14, 15,  0,  1,  2,  3,  4,  5,  6,  7>>,
       << 9,  8, 11, 10, 13, 12, 15, 14,  1,  0,  3,  2,  5,  4,  7,  6>>,
       <<10, 11,  8,  9, 14, 15, 12, 13,  2,  3,  0,  1,  6,  7,  4,  5>>,
       <<11, 10,  9,  8, 15, 14, 13, 12,  3,  2,  1,  0,  7,  6,  5,  4>>,
       <<12, 13, 14, 15,  8,  9, 10, 11,  4,  5,  6,  7,  0,  1,  2,  3>>,
       <<13, 12, 15, 14,  9,  8, 11, 10,  5,  4,  7,  6,  1,  0,  3,  2>>,
       <<14, 15, 12, 13, 10, 11,  8,  9,  6,  7,  4,  5,  2,  3,  0,  1>>,
       <<15, 14, 13, 12, 11, 10,  9,  8,  7,  6,  5,  4,  3,  2,  1,  0>> >>

And4 ==
    <<
       << 0,  0,  0,  0,  0,  0,  0,  0,  0,  0,  0,  0,  0,  0,  0,  0>>,
       << 0,  1,  0,  1,  0,  1,  0,  1,  0,  1,  0,  1,  0,  1,  0,  1>>,
       << 0,  0,  2,  2,  0,  0,  2,  2,  0,  0,  2,  2,  0,  0,  2,  2>>,
       << 0,  1,  2,  3,  0,  1,  2,  3,  0,  1,  2,  3,  0,  1,  2,  3>>,
       << 0,  0,  0,  0,  4,  4,  4,  4,  0,  0,  0,  0,  4,  4,  4,  4>>,
       << 0,  1,  0,  1,  4,  5,  4,  5,  0,  1,  0,  1,  4,  5,  4,  5>>,
       << 0,  0,  2,  2,  4,  4,  6,  6,  0,  0,  2,  2,  4,  4,  6,  6>>,
       << 0,  1,  2,  3,  4,  5,  6,  7,  0,  1,  2,  3,  4,  5,  6,  7>>,
       << 0,  0,  0,  0,  0,  0,  0,  0,  8,  8,  8,  8,  8,  8,  8,  8>>,
       << 0,  1,  0,  1,  0,  1,  0,  1,  8,  9,  8,  9,  8,  9,  8,  9>>,
       << 0,  0,  2,  2,  0,  0,  2,  2,  8,  8, 10, 10,  8,  8, 10, 10>>,
       << 0,  1,  2,  3,  0,  1,  2,  3,  8,  9, 10, 11,  8,  9, 10, 11>>,
       << 0,  0,  0,  0,  4,  4,  4,  4,  8,  8,  8,  8, 12, 12, 12, 12>>,
       << 0,  1,  0,  1,  4,  5,  4,  5,  8,  9,  8,  9, 12, 13, 12, 13>>,
       << 0,  0,  2,  2,  4,  4,  6,  6,  8,  8, 10, 10, 12, 12, 14, 14>>,
       << 0,  1,  2,  3,  4,  5,  6,  7,  8,  9, 10, 11, 12, 13, 14, 15>> >>

\* a 16-bit half word from its four hexadecimal digits taken two by two
\* through a table
Digits4(t, a, b) ==
    t[(a \div 4096) + 1][(b \div 4096) + 1] * 4096
    + t[((a \div 256) % 16) + 1][((b \div 256) % 16) + 1] * 256
    + t[((a \div 16) % 16) + 1][((b \div 16) % 16) + 1] * 16
    + t[(a % 16) + 1][(b % 16) + 1]

Xor16(a, b) == Digits4(Xor4, a, b)
And16(a, b) == Digits4(And4, a, b)

\* x ^ y, x & y, ^x, x + y of uint32
Xor(x, y) == <<Xor16(x[1], y[1]), Xor16(x[2], y[2])>>
And(x, y) == <<And16(x[1], y[1]), And16(x[2], y[2])>>
Not(x) == <<65535 - x[1], 65535 - x[2]>>
Add(x, y) ==
    LET lo == x[2] + y[2]
    IN  <<(x[1] + y[1] + lo \div 65536) % 65536, lo % 65536>>

\* bits.RotateLeft32(x, -k)
RECURSIVE RotR(_, _)
RotR(x, k) ==
    IF k >= 16 THEN RotR(<<x[2], x[1]>>, k - 16)
    ELSE IF k = 0 THEN x
    ELSE <<x[1] \div 2^k + (x[2] % 2^k) * 2^(16 - k),
           x[2] \div 2^k + (x[1] % 2^k) * 2^(16 - k)>>

\* x >> k
ShR(x, k) ==
    IF k >= 16 THEN <<0, x[1] \div 2^(k - 16)>>
    ELSE <<x[1] \div 2^k, x[2] \div 2^k + (x[1] % 2^k) * 2^(16 - k)>>

\* _K: the round constants
SHA256_K ==
    <<
       <<17034, 12184>>, <<28983, 17553>>, <<46528, 64463>>, <<59829, 56229>>,
       <<14678, 49755>>, <<23025, 4593>>, <<37439, 33444>>, <<43804, 24277>>,
       <<55303, 43672>>, <<4739, 23297>>, <<9265, 34238>>, <<21772, 32195>>,
       <<29374, 23924>>, <<32990, 45566>>, <<39900, 1703>>, <<49563, 61812>>,
       <<58523, 27073>>, <<61374, 18310>>, <<4033, 40390>>, <<9228, 41420>>,
       <<11753, 11375>>, <<19060, 33962>>, <<23728, 43484>>, <<30457, 35034>>,
       <<38974, 20818>>, <<43057, 50797>>, <<45059, 10184>>, <<48985, 32711>>,
       <<50912, 3059>>, <<54695, 37191>>, <<1738, 25425>>, <<5161, 10599>>,
       <<10167, 2693>>, <<11803, 8504>>, <<19756, 28156>>, <<21304, 3347>>,
       <<25866, 29524>>, <<30314, 2747>>, <<33218, 51502>>, <<37490, 11397>>,
       <<41663, 59553>>, <<43034, 26187>>, <<49739, 35696>>, <<51052, 20899>>,
       <<53650, 59417>>, <<54937, 1572>>, <<62478, 13701>>, <<4202, 41072>>,
       <<6564, 49430>>, <<7735, 27656>>, <<10056, 30540>>, <<13488, 48309>>,
       <<14620, 3251>>, <<20184, 43594>>, <<23452, 51791>>, <<26670, 28659>>,
       <<29839, 33518>>, <<30885, 25455>>, <<33992, 30740>>, <<36039, 520>>,
       <<37054, 65530>>, <<42064, 27883>>, <<48889, 41975>>, <<50801, 30962>> >>

\* init0 .. init7
SHA256_Init ==
    <<
       <<27145, 58983>>, <<47975, 44677>>, <<15470, 62322>>, <<42319, 62778>>,
       <<20750, 21119>>, <<39685, 26764>>, <<8067, 55723>>, <<23520, 52505>> >>

\* the length of the message in bits, big-endian in 8 bytes, after 0x80 and
\* the zeros that fill the last block
SHA256_Pad(msg) ==
    LET bits == 8 * Len(msg)
        zeros == (119 - (Len(msg) % 64)) % 64
    IN  msg \o <<128>> \o [i \in 1..zeros |-> 0] \o <<0, 0, 0, 0>>
            \o <<(bits \div 16777216) % 256, (bits \div 65536) % 256,
                  (bits \div 256) % 256, bits % 256>>

\* the 64 words of the message schedule of a block p[1..64]
RECURSIVE SHA256_Schedule(_)
SHA256_Schedule(w) ==
    IF Len(w) = 64 THEN w
    ELSE LET t == Len(w) + 1
             v1 == w[t - 2]
             v2 == w[t - 15]
             t1 == Xor(Xor(RotR(v1, 17), RotR(v1, 19)), ShR(v1, 10))
             t2 == Xor(Xor(RotR(v2, 7), RotR(v2, 18)), ShR(v2, 3))
         IN  SHA256_Schedule(Append(w, Add(Add(t1, w[t - 7]), Add(t2, w[t - 16]))))

\* for i := 0; i < 64; i++: the rounds from s[9] on, on the working
\* variables s = <<a, b, c, d, e, f, g, h, i + 1>>
RECURSIVE SHA256_Rounds(_, _)
SHA256_Rounds(s, w) ==
    IF s[9] > 64 THEN s
    ELSE LET a == s[1]
             e == s[5]
             ch == Xor(And(e, s[6]), And(Not(e), s[7]))
             maj == Xor(Xor(And(a, s[2]), And(a, s[3])), And(s[2], s[3]))
             t1 == Add(Add(Add(s[8], Xor(Xor(RotR(e, 6), RotR(e, 11)), RotR(e, 25))), ch),
                       Add(SHA256_K[s[9]], w[s[9]]))
             t2 == Add(Xor(Xor(RotR(a, 2), RotR(a, 13)), RotR(a, 22)), maj)
         IN  SHA256_Rounds(<<Add(t1, t2), a, s[2], s[3], Add(s[4], t1), e, s[6], s[7],
                             s[9] + 1>>, w)

\* the word of the four bytes of p from i on, big-endian
Word(p, i) == <<p[i] * 256 + p[i + 1], p[i + 2] * 256 + p[i + 3]>>

\* block: for len(p) >= chunk, on hs = <<h0, ..., h7, i>> with i the place
\* in p of the next block
RECURSIVE SHA256_Blocks(_, _)
SHA256_Blocks(hs, p) ==
    IF hs[9] > Len(p) THEN hs
    ELSE LET i == hs[9]
             w == SHA256_Schedule(
                      <<Word(p, i), Word(p, i + 4), Word(p, i + 8), Word(p, i + 12),
                        Word(p, i + 16), Word(p, i + 20), Word(p, i + 24), Word(p, i + 28),
                        Word(p, i + 32), Word(p, i + 36), Word(p, i + 40), Word(p, i + 44),
                        Word(p, i + 48), Word(p, i + 52), Word(p, i + 56), Word(p, i + 60)>>)
             s == SHA256_Rounds(<<hs[1], hs[2], hs[3], hs[4], hs[5], hs[6], hs[7], hs[8], 1>>, w)
         IN  SHA256_Blocks(<<Add(hs[1], s[1]), Add(hs[2], s[2]), Add(hs[3], s[3]),
                             Add(hs[4], s[4]), Add(hs[5], s[5]), Add(hs[6], s[6]),
                             Add(hs[7], s[7]), Add(hs[8], s[8]), i + 64>>, p)

\* the two bytes of a half word
Halves(x) == <<x \div 256, x % 256>>

\* sha256.Sum256: the 32 bytes of the digest
SHA256(msg) ==
    LET h == SHA256_Blocks(SHA256_Init \o <<1>>, SHA256_Pad(msg))
    IN  Halves(h[1][1]) \o Halves(h[1][2]) \o Halves(h[2][1]) \o Halves(h[2][2])
        \o Halves(h[3][1]) \o Halves(h[3][2]) \o Halves(h[4][1]) \o Halves(h[4][2])
        \o Halves(h[5][1]) \o Halves(h[5][2]) \o Halves(h[6][1]) \o Halves(h[6][2])
        \o Halves(h[7][1]) \o Halves(h[7][2]) \o Halves(h[8][1]) \o Halves(h[8][2])

\* hex.EncodeToString
HexDigit(d) == IF d < 10 THEN 48 + d ELSE 87 + d
EncodeToString(bytes) ==
    [i \in 1..2 * Len(bytes) |->
        IF i % 2 = 1 THEN HexDigit(bytes[(i + 1) \div 2] \div 16)
        ELSE HexDigit(bytes[i \div 2] % 16)]

(***************************************************************************)
(* The events and the digests of the tests.                                *)
(***************************************************************************)
Fixed ==
    [
     \* "assets/03c60f22-588c-4f12-b3c2-e98c7f2e98a0/events/409ae05a-183d-4e55-8aa6-889159edefd3"
      event1 |-> <<97, 115, 115, 101, 116, 115, 47, 48, 51, 99, 54, 48, 102, 50, 50, 45, 53, 56, 56, 99, 45, 52, 102, 49, 50, 45, 98, 51, 99, 50, 45, 101, 57, 56, 99, 55, 102, 50, 101, 57, 56, 97, 48, 47, 101, 118, 101, 110, 116, 115, 47, 52, 48, 57, 97, 101, 48, 53, 97, 45, 49, 56, 51, 100, 45, 52, 101, 53, 53, 45, 56, 97, 97, 54, 45, 56, 56, 57, 49, 53, 57, 101, 100, 101, 102, 100, 51>>,
     \* "assets/03c60f22-588c-4f12-b3c2-e98c7f2e98a0"
      asset1 |-> <<97, 115, 115, 101, 116, 115, 47, 48, 51, 99, 54, 48, 102, 50, 50, 45, 53, 56, 56, 99, 45, 52, 102, 49, 50, 45, 98, 51, 99, 50, 45, 101, 57, 56, 99, 55, 102, 50, 101, 57, 56, 97, 48>>,
     \* "assets/a987b910-f567-4cca-9869-bbbeb12aec20/events/936ba508-ee65-426d-8903-52c59cb4655b"
      event2 |-> <<97, 115, 115, 101, 116, 115, 47, 97, 57, 56, 55, 98, 57, 49, 48, 45, 102, 53, 54, 55, 45, 52, 99, 99, 97, 45, 57, 56, 54, 57, 45, 98, 98, 98, 101, 98, 49, 50, 97, 101, 99, 50, 48, 47, 101, 118, 101, 110, 116, 115, 47, 57, 51, 54, 98, 97, 53, 48, 56, 45, 101, 101, 54, 53, 45, 52, 50, 54, 100, 45, 56, 57, 48, 51, 45, 53, 50, 99, 53, 57, 99, 98, 52, 54, 53, 53, 98>>,
     \* "assets/a987b910-f567-4cca-9869-bbbeb12aec20"
      asset2 |-> <<97, 115, 115, 101, 116, 115, 47, 97, 57, 56, 55, 98, 57, 49, 48, 45, 102, 53, 54, 55, 45, 52, 99, 99, 97, 45, 57, 56, 54, 57, 45, 98, 98, 98, 101, 98, 49, 50, 97, 101, 99, 50, 48>>,
     \* "https://rkvt.com"
      issuer |-> <<104, 116, 116, 112, 115, 58, 47, 47, 114, 107, 118, 116, 46, 99, 111, 109>>,
     \* "117303158125148247777"
      subject1 |-> <<49, 49, 55, 51, 48, 51, 49, 53, 56, 49, 50, 53, 49, 52, 56, 50, 52, 55, 55, 55, 55>>,
     \* "William Defoe"
      name1 |-> <<87, 105, 108, 108, 105, 97, 109, 32, 68, 101, 102, 111, 101>>,
     \* "WilliamDefoe@rkvst.com"
      email1 |-> <<87, 105, 108, 108, 105, 97, 109, 68, 101, 102, 111, 101, 64, 114, 107, 118, 115, 116, 46, 99, 111, 109>>,
     \* "227303158125148248888"
      subject2 |-> <<50, 50, 55, 51, 48, 51, 49, 53, 56, 49, 50, 53, 49, 52, 56, 50, 52, 56, 56, 56, 56>>,
     \* "John Cena"
      name2 |-> <<74, 111, 104, 110, 32, 67, 101, 110, 97>>,
     \* "JohnCena@rkvst.com"
      email2 |-> <<74, 111, 104, 110, 67, 101, 110, 97, 64, 114, 107, 118, 115, 116, 46, 99, 111, 109>>,
     \* "0xf8dfc073650503aeD429E414bE7e972f8F095e70"
      from1 |-> <<48, 120, 102, 56, 100, 102, 99, 48, 55, 51, 54, 53, 48, 53, 48, 51, 97, 101, 68, 52, 50, 57, 69, 52, 49, 52, 98, 69, 55, 101, 57, 55, 50, 102, 56, 70, 48, 57, 53, 101, 55, 48>>,
     \* "0xa453a973650503aeD429E414bE7e972f8F095f81"
      from2 |-> <<48, 120, 97, 52, 53, 51, 97, 57, 55, 51, 54, 53, 48, 53, 48, 51, 97, 101, 68, 52, 50, 57, 69, 52, 49, 52, 98, 69, 55, 101, 57, 55, 50, 102, 56, 70, 48, 57, 53, 102, 56, 49>>,
     \* "tenant/0684984b-654d-4301-ad10-a508126e187d"
      tenant |-> <<116, 101, 110, 97, 110, 116, 47, 48, 54, 56, 52, 57, 56, 52, 98, 45, 54, 53, 52, 100, 45, 52, 51, 48, 49, 45, 97, 100, 49, 48, 45, 97, 53, 48, 56, 49, 50, 54, 101, 49, 56, 55, 100>>,
     \* "display_name"
      display_name |-> <<100, 105, 115, 112, 108, 97, 121, 95, 110, 97, 109, 101>>,
     \* "email"
      email |-> <<101, 109, 97, 105, 108>>,
     \* "vehicle"
      vehicle |-> <<118, 101, 104, 105, 99, 108, 101>>,
     \* "car"
      car |-> <<99, 97, 114>>,
     \* "681458c64f5ca35717e69df83c392c5f671a71c18f7830ccae676edfdb7179f1"
      hash1 |-> <<54, 56, 49, 52, 53, 56, 99, 54, 52, 102, 53, 99, 97, 51, 53, 55, 49, 55, 101, 54, 57, 100, 102, 56, 51, 99, 51, 57, 50, 99, 53, 102, 54, 55, 49, 97, 55, 49, 99, 49, 56, 102, 55, 56, 51, 48, 99, 99, 97, 101, 54, 55, 54, 101, 100, 102, 100, 98, 55, 49, 55, 57, 102, 49>>,
     \* "61211c916cd113a1cf424ac729924de46aa6259919825dbdf8ec78c5c14665e2"
      hashAllV2 |-> <<54, 49, 50, 49, 49, 99, 57, 49, 54, 99, 100, 49, 49, 51, 97, 49, 99, 102, 52, 50, 52, 97, 99, 55, 50, 57, 57, 50, 52, 100, 101, 52, 54, 97, 97, 54, 50, 53, 57, 57, 49, 57, 56, 50, 53, 100, 98, 100, 102, 56, 101, 99, 55, 56, 99, 53, 99, 49, 52, 54, 54, 53, 101, 50>>,
     \* "c52caf06bf525ae7e2fde8e08e2d2cac30ceb8b9f761503d7f671213b07fc576"
      hashAllV3 |-> <<99, 53, 50, 99, 97, 102, 48, 54, 98, 102, 53, 50, 53, 97, 101, 55, 101, 50, 102, 100, 101, 56, 101, 48, 56, 101, 50, 100, 50, 99, 97, 99, 51, 48, 99, 101, 98, 56, 98, 57, 102, 55, 54, 49, 53, 48, 51, 100, 55, 102, 54, 55, 49, 50, 49, 51, 98, 48, 55, 102, 99, 53, 55, 54>> ]

\* v2assets.Principal as the flat marshaler writes it
FixedPrincipal(subject, name, email) ==
    Map(<< <<Text.issuer, Str(Fixed.issuer)>>, <<Text.subject, Str(subject)>>,
           <<Fixed.display_name, Str(name)>>, <<Fixed.email, Str(email)>> >>)

\* validEventsV2[0]
ValidEvent1 ==
    [ Identity           |-> Fixed.event1,
      AssetIdentity      |-> Fixed.asset1,
      EventAttributes    |-> Map(<< <<Text.foo, Str(Text.bar)>> >>),
      AssetAttributes    |-> Map(<< <<Text.fab, Str(Text.baz)>> >>),
      Operation          |-> Text.record,
      Behaviour          |-> Text.evidence,
      TimestampDeclared  |-> [seconds |-> 1665926090, nanos |-> 0],
      TimestampAccepted  |-> [seconds |-> 1665926095, nanos |-> 0],
      TimestampCommitted |-> [seconds |-> 1665926099, nanos |-> 0],
      PrincipalDeclared  |-> FixedPrincipal(Fixed.subject1, Fixed.name1, Fixed.email1),
      PrincipalAccepted  |-> FixedPrincipal(Fixed.subject1, Fixed.name1, Fixed.email1),
      ConfirmationStatus |-> "CONFIRMED",
      From               |-> Fixed.from1,
      TenantIdentity     |-> Fixed.tenant ]

\* validEventsV2[1]
ValidEvent2 ==
    [ Identity           |-> Fixed.event2,
      AssetIdentity      |-> Fixed.asset2,
      EventAttributes    |-> Map(<< <<Text.make, Str(Text.volvo)>> >>),
      AssetAttributes    |-> Map(<< <<Fixed.vehicle, Str(Fixed.car)>> >>),
      Operation          |-> Text.record,
      Behaviour          |-> Text.evidence,
      TimestampDeclared  |-> [seconds |-> 1665126090, nanos |-> 0],
      TimestampAccepted  |-> [seconds |-> 1665126095, nanos |-> 0],
      TimestampCommitted |-> [seconds |-> 1665126099, nanos |-> 0],
      PrincipalDeclared  |-> FixedPrincipal(Fixed.subject2, Fixed.name2, Fixed.email2),
      PrincipalAccepted  |-> FixedPrincipal(Fixed.subject2, Fixed.name2, Fixed.email2),
      ConfirmationStatus |-> "CONFIRMED",
      From               |-> Fixed.from2,
      TenantIdentity     |-> Fixed.tenant ]

validEventsV2 == {ValidEvent1, ValidEvent2}
ValidJSONs == {JSONOf(ValidEvent1), JSONOf(ValidEvent2)}
VectorOptionLists == { <<>>, <<WithAccumulate>>, <<WithAccumulate, WithPrefix(Prefix1)>> }

\* the hashers of the tests: the fixed events, one at a time and in series
NextVectors ==
    \/ V2HashEventCall(validEventsV2, VectorOptionLists)
    \/ V2HashEventJSONCall(ValidJSONs, VectorOptionLists)
    \/ V3HashEventCall(validEventsV2, VectorOptionLists)
    \/ V3HashEventFromJSONCall(ValidJSONs, VectorOptionLists)
    \/ SumCall
    \/ ResetCall

SpecVectors == Init /\ [][NextVectors]_vars

\* hex.EncodeToString(h.Sum()): the digest a hasher holding h returns
SumHex(h) == EncodeToString(SHA256(Hasher_Sum(h).digest.sha256))

\* the argument of HashEvent or HashEventJSON for an event
FormOf(name, e) == IF name = "HashEvent" THEN e ELSE JSONOf(e)

\* C22: validEventsV2[0] hashed by a new v2 hasher without options has the
\* SHA-256 digest
\* 681458c6...; validEventsV2[0] then validEventsV2[1] hashed with
\* WithAccumulate on an empty hasher have the digest 61211c91... under v2,
\* by HashEvent as by HashEventJSON, and c52caf06... under v3.
C22_Vectors ==
    [][ /\ (schema = "v2" /\ op = "New" /\ op' \in {"HashEvent", "HashEventJSON"}
            /\ arg' = FormOf(op', ValidEvent1) /\ options' = <<>>) =>
              (err' = "nil" /\ SumHex(hasher') = Fixed.hash1)
        /\ (op \in {"HashEvent", "HashEventJSON"} /\ op' = op
            /\ options = <<WithAccumulate>> /\ options' = <<WithAccumulate>>
            /\ n = 1 /\ err = "nil"
            /\ arg = FormOf(op, ValidEvent1) /\ arg' = FormOf(op, ValidEvent2)) =>
              /\ err' = "nil"
              /\ schema = "v2" => SumHex(hasher') = Fixed.hashAllV2
              /\ schema = "v3" => SumHex(hasher') = Fixed.hashAllV3 ]_vars

\* the two fixed events have been hashed in series by HashEventJSON of v2
\* and Sum has returned the digest of the tests
C22_Witness ==
    /\ schema = "v2"
    /\ op = "Sum"
    /\ n = 2
    /\ digest # <<>>
    /\ Len(hasher) = Len(Encoded("v2", V2Of(ValidEvent1))) + Len(Encoded("v2", V2Of(ValidEvent2)))
    /\ EncodeToString(SHA256(digest[1].sha256)) = Fixed.hashAllV2

(***************************************************************************)
(* Goroutines inside HasherV2.HashEvent at once.  A Hasher holds one       *)
(* hash.Hash and no lock: HashEvent calls Reset and Write on it one after  *)
(* the other, and between two of those calls another goroutine may make    *)
(* its own.  The callers either share one Hasher or have one each, and     *)
(* either wrap each call in Lock and Unlock of a sync.Mutex or do not.     *)
(***************************************************************************)
Callers == {1, 2}

\* the Hasher each goroutine calls: the same one, or its own
Shared == [c \in Callers |-> 1]
Own == [c \in Callers |-> c]

ConcurrentEvents == {Event1, Event2, EventInvalid}
ConcurrentOptionLists ==
    { <<>>,
      <<WithAccumulate>>,
      <<WithPrefix(Prefix1), WithIDCommitted(IDCommitted1)>>,
      <<WithAccumulate, WithPrefix(Prefix1), WithIDCommitted(IDCommitted1)>> }

\* the variables of the one goroutine calling in series
single == <<schema, hasher, n, op, arg, options, err, rec, event, digest>>

\* a goroutine that has not called yet
Idle(acc) ==
    [pc |-> "idle", acc |-> acc, event |-> <<>>, opts |-> <<>>, v2Event |-> <<>>, err |-> "nil"]

\* NewHasherV2() by the callers, and the mutex they agreed on or did without
InitCallers ==
    /\ schema = "v2"
    /\ hasher = NewHasher
    /\ n = 0
    /\ op = "New"
    /\ arg = <<>>
    /\ options = <<>>
    /\ err = "nil"
    /\ rec = <<>>
    /\ event = <<>>
    /\ digest = <<>>
    /\ \E accs \in {Shared, Own} : callers = [c \in Callers |-> Idle(accs[c])]
    /\ hashers = [c \in Callers |-> NewHasher]
    /\ \E used \in BOOLEAN : mutex = [used |-> used, holder |-> 0]

\* the calls HashEvent makes on the hash.Hash, in the order of the code
Steps == <<"reset", "prefix", "idcommitted", "record">>

\* the condition the code puts on each of them
Applies(o, step) ==
    CASE step = "reset" -> ~o.accumulateHash
      [] step = "prefix" -> Len(o.prefix) # 0
      [] step = "idcommitted" -> o.idcommitted # <<>>
      [] step = "record" -> TRUE

\* a mutex that locks nothing
Locked_Never(m) == FALSE

\* sync.Mutex: Lock blocks while it is held
Locked(m) == m.holder # 0

\* where a goroutine is once HashEvent has returned
Returned(m) == IF m.used THEN "returned" ELSE "done"

\* the next call on the hash.Hash from step i on, or the return
RECURSIVE StepFrom(_, _, _)
StepFrom(o, i, m) ==
    IF i > Len(Steps) THEN Returned(m)
    ELSE IF Applies(o, Steps[i]) THEN Steps[i]
    ELSE StepFrom(o, i + 1, m)

\* the goroutine is between two of its calls on the hash.Hash
Inside(c) == \E i \in 1..Len(Steps) : callers[c].pc = Steps[i]

\* another goroutine is inside HashEvent on the same hash.Hash
Racing(c) == \E d \in Callers \ {c} : callers[d].acc = callers[c].acc /\ Inside(d)

\* hash.Hash.Write beside another goroutine's calls is a data race on the
\* buffer and the length of the digest: the bytes are appended, or the
\* update is lost under the other goroutine's
WriteOutcomes(c, b) ==
    LET h == hashers[callers[c].acc]
    IN  IF Racing(c) THEN {Write(h, b), h} ELSE {Write(h, b)}

\* mu.Lock() ahead of the call
Lock(c) ==
    /\ mutex.used
    /\ callers[c].pc = "idle"
    /\ ~Locked(mutex)
    /\ mutex' = [mutex EXCEPT !.holder = c]
    /\ callers' = [callers EXCEPT ![c].pc = "locked"]
    /\ UNCHANGED <<single, hashers>>

\* HasherV2.HashEvent up to "Hash data accumulation starts here"
Enter(c) ==
    /\ callers[c].pc = IF mutex.used THEN "locked" ELSE "idle"
    /\ \E e \in ConcurrentEvents, opts \in ConcurrentOptionLists :
          LET o == MakeOptions(opts)
              v2Event == V2FromEventResponse(applyEventOptions(o, e))
          IN  callers' = [callers EXCEPT ![c] =
                  IF ~v2Event.ok
                  THEN [@ EXCEPT !.pc = Returned(mutex), !.event = <<e>>, !.opts = opts,
                                 !.err = ErrDecode]
                  ELSE [@ EXCEPT !.pc = StepFrom(o, 1, mutex), !.event = <<e>>, !.opts = opts,
                                 !.v2Event = <<v2Event.e>>]]
    /\ UNCHANGED <<single, hashers, mutex>>

\* h.hasher.Reset()
ResetStep(c) ==
    /\ callers[c].pc = "reset"
    /\ hashers' = [hashers EXCEPT ![callers[c].acc] = HashReset(@)]
    /\ callers' = [callers EXCEPT ![c].pc = StepFrom(MakeOptions(callers[c].opts), 2, mutex)]
    /\ UNCHANGED <<single, mutex>>

\* h.hasher.Write(o.prefix)
WritePrefix(c) ==
    /\ callers[c].pc = "prefix"
    /\ \E h \in WriteOutcomes(c, MakeOptions(callers[c].opts).prefix) :
          hashers' = [hashers EXCEPT ![callers[c].acc] = h]
    /\ callers' = [callers EXCEPT ![c].pc = StepFrom(MakeOptions(callers[c].opts), 3, mutex)]
    /\ UNCHANGED <<single, mutex>>

\* h.hasher.Write(o.idcommitted)
WriteIDCommitted(c) ==
    /\ callers[c].pc = "idcommitted"
    /\ \E h \in WriteOutcomes(c, MakeOptions(callers[c].opts).idcommitted) :
          hashers' = [hashers EXCEPT ![callers[c].acc] = h]
    /\ callers' = [callers EXCEPT ![c].pc = StepFrom(MakeOptions(callers[c].opts), 4, mutex)]
    /\ UNCHANGED <<single, mutex>>

\* V2HashEvent(h.hasher, v2Event): the encoding, then hasher.Write(bencodeEvent)
WriteRecord(c) ==
    /\ callers[c].pc = "record"
    /\ LET hashed == V2HashEvent(<<>>, callers[c].v2Event[1])
       IN  /\ \E h \in (IF hashed.err = "nil" THEN WriteOutcomes(c, hashed.hasher)
                        ELSE {hashers[callers[c].acc]}) :
                 hashers' = [hashers EXCEPT ![callers[c].acc] = h]
           /\ callers' = [callers EXCEPT ![c].pc = Returned(mutex), ![c].err = hashed.err]
    /\ UNCHANGED <<single, mutex>>

\* mu.Unlock() after the call
Unlock(c) ==
    /\ callers[c].pc = "returned"
    /\ mutex.holder = c
    /\ mutex' = [mutex EXCEPT !.holder = 0]
    /\ callers' = [callers EXCEPT ![c].pc = "done"]
    /\ UNCHANGED <<single, hashers>>

NextCallers ==
    \E c \in Callers :
        \/ Lock(c)
        \/ Enter(c)
        \/ ResetStep(c)
        \/ WritePrefix(c)
        \/ WriteIDCommitted(c)
        \/ WriteRecord(c)
        \/ Unlock(c)

SpecCallers == InitCallers /\ [][NextCallers]_vars

\* the goroutines whose call on hash.Hash a has returned, and those on it at all
Finished(a) == {c \in Callers : callers[c].acc = a /\ callers[c].pc \in {"returned", "done"}}
Users(a) == {c \in Callers : callers[c].acc = a}

\* the orders in which the calls of a set of goroutines can follow one another
Orders(S) == {order \in [1..Cardinality(S) -> S] : \A i, j \in 1..Cardinality(S) : order[i] = order[j] => i = j}

\* the digest input after the calls are made one after the other
RECURSIVE Serial(_, _)
Serial(h, order) ==
    IF order = <<>> THEN h
    ELSE Serial(HasherV2_HashEvent(h, callers[Head(order)].event[1], callers[Head(order)].opts).hasher,
                Tail(order))

SerialInputs(a) == {Serial(NewHasher, order) : order \in Orders(Finished(a))}

\* no goroutine is inside a call on hash.Hash a
Quiescent(a) == \A c \in Users(a) : ~Inside(c)

\* C23: hashEvent is not atomic on a shared accumulator, so two unprotected
\* concurrent calls can leave a digest input no serial order gives (the state
\* C23_Witness); when every call is made under the mutex, or each caller has
\* its own accumulator, the digest input between calls is always that of the
\* finished calls made one after the other in some order.
C23_Serializable ==
    \A a \in Callers :
        (callers # <<>> /\ (mutex.used \/ Cardinality(Users(a)) <= 1) /\ Quiescent(a))
            => hashers[a] \in SerialInputs(a)

\* two callers on one accumulator, no mutex, every Write appended whole, and
\* the bytes hashed are not those of either order of the two calls
C23_Witness ==
    /\ ~mutex.used
    /\ Users(1) = Callers
    /\ \A c \in Callers : callers[c].pc = "done" /\ callers[c].err = "nil"
    /\ Len(hashers[1]) = Len(Serial(NewHasher, <<1, 2>>))
    /\ MakeOptions(callers[1].opts).accumulateHash
    /\ MakeOptions(callers[2].opts).accumulateHash
    /\ hashers[1] \notin SerialInputs(1)

(***************************************************************************)
(* What one call leaves in the digest input of a batch.                    *)
(***************************************************************************)
\* the calls that hash an event
HashingOps == {"HashEvent", "HashEventJSON", "HashEventFromJSON", "HashEventFromV3"}

\* accumulate, with the prefix p and the id commitment c of a batch
BatchOptions == <<WithAccumulate, WithPrefix(Prefix1), WithIDCommitted(IDCommitted1)>>

\* p || c
Ahead == Prefix1 \o PutUint64(IDCommitted1)

\* C24: in accumulate mode the prefix and the id commitment are written once
\* per call and the options of a call do not outlive it: every call that
\* succeeds appends the prefix and id of its own options, if any, and then
\* the encoded record, to the input kept (accumulate) or emptied (otherwise);
\* two calls with accumulate, p and c on an empty hasher give
\* p || c || enc(e1) || p || c || enc(e2); and a call with accumulate alone
\* appends only enc(e), whatever the calls before it supplied.
C24_OncePerCall ==
    [][ (op' \in HashingOps /\ err' = "nil") =>
            LET o == MakeOptions(options')
                enc == Encoded(schema, rec'[1])
            IN  /\ hasher' = (IF o.accumulateHash THEN hasher ELSE NewHasher)
                                  \o o.prefix \o o.idcommitted \o enc
                /\ (/\ op \in HashingOps /\ err = "nil" /\ n = 1
                    /\ options = BatchOptions /\ options' = BatchOptions)
                       => hasher' = Ahead \o Encoded(schema, rec[1]) \o Ahead \o enc
                /\ options' = <<WithAccumulate>> => hasher' = hasher \o enc ]_vars

\* a batch whose first call gave p and c and whose second call gave neither
C24_Witness ==
    /\ op \in HashingOps
    /\ err = "nil"
    /\ n = 2
    /\ options = <<WithAccumulate>>
    /\ \E e \in Events :
          hasher = Ahead \o Encoded(schema, V2Of(e)) \o Encoded(schema, rec[1])

=============================================================================
